---- MODULE Spec2Model ----
(***************************************************************************)
(* The message plane of the BuzyBeez orchestrator: the per-bee outbox      *)
(* watchers (chokidar 'add' callbacks), SwarmManager.routeMail, the human  *)
(* mailbox, POST /api/mail/send, the process stopping and starting again   *)
(* (main), the registry of bees and connections (/api/swarm, /api/bees,    *)
(* /api/connections) and the start and stop requests of a bee.             *)
(*                                                                         *)
(* Every await of the TypeScript source is a step boundary: a callback     *)
(* runs from one await to the next atomically (Node's single event loop)   *)
(* and the I/O it awaits completes in a later step, in any order relative  *)
(* to the I/O of the other callbacks.                                      *)
(***************************************************************************)
EXTENDS Integers, Sequences, FiniteSets, TLC

(* ------------------------------- bounds -------------------------------- *)
MaxMail == 2      \* mails written through send_mail, all bees together
MaxRaw == 1       \* files written into an outbox with the agent's Write/Bash tools
MaxSend == 1      \* POST /api/mail/send requests
MaxTime == 2      \* Date.now() runs over 1..MaxTime
MaxCrash == 1     \* times the orchestrator process is stopped
MaxIOFail == 1    \* fs.writeFile calls that fail
MaxConnOps == 1   \* POST/DELETE /api/connections requests
MaxStart == 2     \* POST /api/bees/:id/start requests
MaxRegOps == 2    \* PUT /api/swarm, POST /api/bees, DELETE /api/bees/:id requests
MaxGets == 1      \* GET /api/bees/:id/hierarchy and GET /api/mail/counts requests
MaxExit == 1      \* containers that stop running on their own
\* Lines appended to logs/transcript.jsonl, and calls of getAll.
MaxLines == 2
MaxGetAll == 1

(* ------------------------------- values -------------------------------- *)
Bees == {"b1", "b2"}
Nodes == Bees \cup {"human"}
Ids == 1..(MaxMail + MaxRaw + MaxSend)     \* uuids; their order is the string order

NoMail == [id |-> 0, from |-> "", to |-> "", type |-> "", inReplyTo |-> 0,
           status |-> ""]
NoName == [ts |-> 0, id |-> 0, ext |-> ""]
NoSnap == [inbox |-> <<>>, outbox |-> <<>>]

\* `${Date.now()}-${id}.json`
FileName(t, id) == [ts |-> t, id |-> id, ext |-> "json"]

\* Comparison of two file names as strings: the epoch-ms prefix first (equal
\* widths), then the uuid.
NameLess(n1, n2) ==
  \/ n1.ts < n2.ts
  \/ n1.ts = n2.ts /\ n1.id < n2.id

\* JSON.stringify(mail, null, 2) and JSON.parse: a text that parses back to the
\* object, against a text that makes JSON.parse throw.
\* A serialisation that writes the fields of the Mail type and no others.
Stringify_KnownFields(mail) ==
  [text |-> "json", obj |-> [k \in DOMAIN NoMail |-> mail[k]]]

Stringify(mail) == [text |-> "json", obj |-> mail]
Garbage == [text |-> "garbage", obj |-> NoMail]
\* What a reader gets from a file fs.writeFile has opened and not finished.
Partial == [text |-> "partial", obj |-> NoMail]
ParseThrows(raw) == raw.text # "json"
Parse(raw) == raw.obj

\* Directories of the data root. The code writes only inbox and outbox; the
\* others are the places the specification names.
BeeDir(kind, b) == <<kind, b>>
Inflight == <<"inflight", "root">>
Deadletter == <<"deadletter", "root">>
Dirs == ({"inbox", "outbox", "poison", "workspace"} \X Bees) \cup {Inflight, Deadletter}

\* fs.writeFile(path): creates the file or replaces the one of that name.
PutFile(dir, file) == {f \in dir : f.name # file.name} \cup {file}
\* fs.unlink(path).catch(() => {}): a missing file is not an error.
RemoveFile(dir, name) == {f \in dir : f.name # name}
HasFile(dir, name) == \E f \in dir : f.name = name
TheFile(dir, name) == CHOOSE f \in dir : f.name = name

VARIABLES
  up,           \* the orchestrator process is running (main has run)
  connections,  \* swarmConfig.connections, the in-memory list
  swarmDisk,    \* connections as stored in swarm.json
  cfgWrites,    \* saveConfig() writes started and not finished (snapshots)
  beeDirs,      \* bees whose data directory exists
  fs,           \* [Dirs -> set of files]
  humanInbox,   \* the in-memory array humanInbox
  humanOutbox,  \* the in-memory array humanOutbox
  humanDisk,    \* human-mailbox.json
  watchers,     \* [Bees -> Nat]: the map watchers, a bee's outbox watcher (0: none)
  seen,         \* <<bee, watcher, name>>: paths a watcher has emitted 'add' for
  handlers,     \* 'add' callbacks in flight
  requests,     \* POST /api/mail/send requests, in flight and answered
  events,       \* what broadcast() has sent: <<event, mail>>
  console,      \* what console.error has printed
  now,          \* Date.now()
  usedIds,      \* uuids drawn so far
  written,      \* history: the mails send_mail put into an outbox, with the file name
  interrupted,  \* history: mails whose routing a process stop cut short
  used,         \* how much of each bound has been used
  bees,         \* swarmConfig.bees, the in-memory list of bee ids
  beesDisk,     \* bees as stored in swarm.json
  container,    \* [Bees -> "none" | "running" | "exited"]: the bee's Docker container
  live,         \* <<bee, watcher>>: chokidar watchers created and not closed
  starts,       \* POST /api/bees/:id/start requests in flight
  lastOp,       \* history: the last registry operation and the lists before it
  hierarchy,    \* [Bees -> content]: the bee's state/hierarchy.json (NoHierarchy: none)
  created,      \* [Bees -> Nat]: containers created for the bee so far
  beeStates,    \* [Bees -> "unset" | "running" | "stopped"]: the map beeStates
  gets,         \* GET requests in flight and answered
  runner,       \* [Bees -> state of the runner process in the bee's container]
  transcript,   \* the TranscriptWatcher object, logs/transcript.jsonl and the reads in flight
  resolve       \* a call of SkillsRegistry.resolveDependencies

\* The registry's bee list, the containers and the watcher objects.
lifecycle == <<bees, beesDisk, container, live, starts, lastOp>>

\* What the supervision of the containers keeps, and the GET requests.
supervisor == <<hierarchy, created, beeStates, gets>>

vars == <<up, connections, swarmDisk, cfgWrites, beeDirs, fs, humanInbox,
          humanOutbox, humanDisk, watchers, seen, handlers, requests, events,
          console, now, usedIds, written, interrupted, used, lifecycle,
          supervisor, runner, transcript, resolve>>

\* uuidv4() / randomUUID(): a value not drawn before. Where the model never
\* compares the value with another one, the least unused one stands for any.
FreshId == CHOOSE id \in Ids \ usedIds : \A other \in Ids \ usedIds : id <= other

(* --------------------------- SwarmManager ------------------------------ *)
Conn(from, to) == [from |-> from, to |-> to, bidirectional |-> "unset"]
BiConn(from, to) == [from |-> from, to |-> to, bidirectional |-> "true"]

\* The default swarm of initialize(), with the second bee registered.
DefaultConnections == <<Conn("human", "b1"), Conn("b1", "human")>>

\* swarm.json as the process may find it.
InitConnections ==
  { DefaultConnections,
    <<Conn("human", "b1"), Conn("b1", "b2")>> }

\* swarmConfig.bees as the process finds it in swarm.json.
InitBees == <<"b1", "b2">>

\* The bees that have been started at some time: startBee created their data
\* directories and their container, so their agent can run.
Started == {"b1"}

\* The registry operation performed last (none yet).
NoOp == [op |-> "", from |-> "", to |-> "", bidirectional |-> FALSE,
         before |-> <<>>, beesBefore |-> <<>>, stage |-> "", cfg |-> <<>>]

Range(s) == {s[i] : i \in DOMAIN s}

RECURSIVE SelectSeqBy(_, _)
\* Array.prototype.filter with the predicate given as the set of kept elements.
SelectSeqBy(s, keep) ==
  IF s = <<>> THEN <<>>
  ELSE IF Head(s) \in keep THEN <<Head(s)>> \o SelectSeqBy(Tail(s), keep)
       ELSE SelectSeqBy(Tail(s), keep)

\* canSendMail with the human node reachable from and to everywhere.
canSendMail_HumanAnywhere(conns, from, to) ==
  \/ from = "human"
  \/ to = "human"
  \/ \E i \in DOMAIN conns : conns[i].from = from /\ conns[i].to = to

canSendMail(conns, from, to) ==
  \E i \in DOMAIN conns : conns[i].from = from /\ conns[i].to = to

FindIndex(conns, from, to) ==
  IF canSendMail(conns, from, to)
  THEN CHOOSE i \in DOMAIN conns :
         /\ conns[i].from = from /\ conns[i].to = to
         /\ \A j \in 1..(i - 1) : ~(conns[j].from = from /\ conns[j].to = to)
  ELSE 0

\* existsX.bidirectional = true on the element found, when it is not set.
FlagAt(conns, i) ==
  IF i = 0 THEN conns ELSE [conns EXCEPT ![i].bidirectional = "true"]

\* addConnection that stores the forward direction only.
addConnection_ForwardOnly(conns, from, to, bidirectional) ==
  IF canSendMail(conns, from, to) THEN conns
  ELSE Append(conns, IF bidirectional THEN BiConn(from, to) ELSE Conn(from, to))

addConnection(conns, from, to, bidirectional) ==
  IF bidirectional
  THEN LET fwd == FindIndex(conns, from, to)
           rev == FindIndex(conns, to, from)
           c1 == IF fwd = 0 THEN Append(conns, BiConn(from, to))
                 ELSE FlagAt(conns, fwd)
           c2 == IF rev = 0 THEN Append(c1, BiConn(to, from))
                 ELSE FlagAt(c1, rev)
       IN c2
  ELSE IF canSendMail(conns, from, to) THEN conns
       ELSE Append(conns, Conn(from, to))

\* removeConnection that removes both directions whatever the option says.
removeConnection_Both(conns, from, to, bidirectional) ==
  SelectSeqBy(conns, {c \in Range(conns) :
    ~((c.from = from /\ c.to = to) \/ (c.from = to /\ c.to = from))})

removeConnection(conns, from, to, bidirectional) ==
  IF bidirectional
  THEN SelectSeqBy(conns, {c \in Range(conns) :
         ~((c.from = from /\ c.to = to) \/ (c.from = to /\ c.to = from))})
  ELSE SelectSeqBy(conns, {c \in Range(conns) : ~(c.from = from /\ c.to = to)})

\* PATCH's operation: true is addConnection(from, to, true); false clears the
\* flag of the forward element and filters the reverse direction out.
updateConnectionBidirectional(conns, from, to, bidirectional) ==
  IF bidirectional
  THEN addConnection(conns, from, to, TRUE)
  ELSE LET forward == FindIndex(conns, from, to)
           cleared == IF forward = 0 THEN conns
                      ELSE [conns EXCEPT ![forward].bidirectional = "unset"]
       IN SelectSeqBy(cleared, {c \in Range(cleared) : ~(c.from = to /\ c.to = from)})

\* The order of the ids of the model as JavaScript's < on strings gives it
\* (UTF-16 code units: "-" sorts before the digits).
IdOrder == <<"b1", "b1->b2", "b2", "b2->b3", "b3", "human">>
StrLess(a, b) ==
  (CHOOSE i \in DOMAIN IdOrder : IdOrder[i] = a) <
  (CHOOSE i \in DOMAIN IdOrder : IdOrder[i] = b)

\* `${conn.from}->${conn.to}`
Key(from, to) == from \o "->" \o to

RECURSIVE MergeFrom(_, _, _, _)
\* The loop of getMergedConnections from element i on, with the entries merged
\* and the keys processed so far.
MergeFrom(conns, i, merged, processed) ==
  IF i > Len(conns) THEN merged
  ELSE LET conn == conns[i]
           key == Key(conn.from, conn.to)
           reverseKey == Key(conn.to, conn.from)
           source == IF StrLess(conn.from, conn.to) THEN conn.from ELSE conn.to
           target == IF StrLess(conn.from, conn.to) THEN conn.to ELSE conn.from
       IN IF key \in processed \/ reverseKey \in processed
          THEN MergeFrom(conns, i + 1, merged, processed)
          ELSE IF canSendMail(conns, conn.to, conn.from)
          THEN MergeFrom(conns, i + 1,
                 Append(merged, [from |-> source, to |-> target,
                                 bidirectional |-> "true"]),
                 processed \cup {key, reverseKey})
          ELSE MergeFrom(conns, i + 1,
                 Append(merged, [from |-> conn.from, to |-> conn.to,
                                 bidirectional |-> "false"]),
                 processed \cup {key})

getMergedConnections(conns) == MergeFrom(conns, 1, <<>>, {})

\* The synchronous head of routeMail: the topology check, the human branch,
\* and otherwise the start of fs.mkdir(inboxDir).
RouteMailEntry(conns, mail) ==
  IF ~canSendMail(conns, mail.from, mail.to) THEN "throw"
  ELSE IF mail.to = "human" THEN "toHuman"
  ELSE "mkdir"

(* ---------------------------- hierarchy.json --------------------------- *)
\* bees.find(x => x.id === id)?.name || id: the name the configuration gives
\* the bee, and the id itself for an id no bee has.
NameOf(bs, id) == IF id \in Range(bs) THEN "Bee " \o id ELSE id

\* No hierarchy.json in the bee's state directory.
NoHierarchy == [beeId |-> "", receivesTasksFrom |-> <<>>, canDelegateTo |-> <<>>]

\* The element the map callbacks return for the node at the other end.
HierarchyEntry(bs, id) ==
  IF id = "human" THEN [id |-> "human", name |-> "Human", type |-> "human"]
  ELSE [id |-> id, name |-> NameOf(bs, id), type |-> "bee"]

RECURSIVE MapFrom(_, _, _)
\* Array.prototype.map over the connections, taking the from end of each.
MapFrom(conns, bs, i) ==
  IF i > Len(conns) THEN <<>>
  ELSE <<HierarchyEntry(bs, conns[i].from)>> \o MapFrom(conns, bs, i + 1)

RECURSIVE MapTo(_, _, _)
\* Array.prototype.map over the connections, taking the to end of each.
MapTo(conns, bs, i) ==
  IF i > Len(conns) THEN <<>>
  ELSE <<HierarchyEntry(bs, conns[i].to)>> \o MapTo(conns, bs, i + 1)

\* What startBee writes into state/hierarchy.json when it creates the
\* container: upstream from the connections to the bee, downstream from the
\* connections from it.
hierarchyFile(conns, bs, beeId) ==
  LET upstream == MapFrom(SelectSeqBy(conns, {c \in Range(conns) : c.to = beeId}),
                          bs, 1)
      downstream == MapTo(SelectSeqBy(conns, {c \in Range(conns) : c.from = beeId}),
                          bs, 1)
  IN [beeId |-> beeId, receivesTasksFrom |-> upstream, canDelegateTo |-> downstream]

\* The reply with the two lists taken from the wrong ends of the connections.
hierarchyReply_Swapped(conns, bs, beeId) ==
  [beeId |-> beeId,
   receivesTasksFrom |->
     MapTo(SelectSeqBy(conns, {c \in Range(conns) : c.from = beeId}), bs, 1),
   canDelegateTo |->
     MapFrom(SelectSeqBy(conns, {c \in Range(conns) : c.to = beeId}), bs, 1)]

\* The body GET /api/bees/:id/hierarchy answers with.
hierarchyReply(conns, bs, beeId) ==
  [beeId |-> beeId,
   receivesTasksFrom |->
     MapFrom(SelectSeqBy(conns, {c \in Range(conns) : c.to = beeId}), bs, 1),
   canDelegateTo |->
     MapTo(SelectSeqBy(conns, {c \in Range(conns) : c.from = beeId}), bs, 1)]

\* refreshBeeStates / getBeeStatus: info.State.Running of the bee's container,
\* false for a bee without a container.
getBeeStatus(c) == IF c = "running" THEN "running" ELSE "stopped"

\* The watchers of bee b that are not closed, and the paths one has reported.
LiveWatchers(b) == {l[2] : l \in {x \in live : x[1] = b}}
SeenBy(b, w) == {t[3] : t \in {x \in seen : x[1] = b /\ x[2] = w}}

\* The runner of a container that starts: nothing listed, read or processed.
NoRunner == [pc |-> "boot", booting |-> TRUE, scan |-> <<>>, listed |-> {},
             lastFiles |-> {}, fresh |-> TRUE, mail |-> NoMail, taken |-> <<>>,
             done |-> <<>>, errors |-> {}]

\* A mail of the human delivered to b1 at an earlier time and not yet taken.
OldMail == [id |-> 0, from |-> "human", to |-> "b1", type |-> "human",
            inReplyTo |-> 0, status |-> "queued"]
OldFile == [name |-> [ts |-> 0, id |-> 0, ext |-> "json"], raw |-> Stringify(OldMail)]

(* ------------------------------- Init ---------------------------------- *)
\* Everything but the directories.
\* No call of resolveDependencies yet.
NoResolve == [pc |-> "idle", registry |-> <<>>, skillIds |-> <<>>,
              toResolve |-> <<>>, resolved |-> <<>>]

\* A TranscriptWatcher after its constructor, with no transcript file yet.
\* file is the content of logs/transcript.jsonl, one element per line; event
\* says that chokidar has an 'add' or 'change' event to deliver; reads are the
\* fs.readFile calls in flight; emitted, base, issued and early are history:
\* the 'entry' events emitted, the lines startWatching's load saw, the reads
\* begun so far, and whether a line was appended while startWatching ran.
NoTranscript ==
  [file |-> <<>>, watching |-> FALSE, event |-> FALSE, lastSize |-> 0,
   entries |-> <<>>, emitted |-> <<>>, reads |-> {}, base |-> 0, issued |-> 0,
   getAlls |-> 0, early |-> FALSE]

InitState ==
  /\ up = FALSE
  /\ connections = <<>>
  /\ swarmDisk \in InitConnections
  /\ cfgWrites = {}
  /\ beeDirs = Started
  /\ humanInbox = <<>>
  /\ humanOutbox = <<>>
  /\ humanDisk = NoSnap
  /\ watchers = [b \in Bees |-> 0]
  /\ seen = {}
  /\ handlers = {}
  /\ requests = {}
  /\ events = {}
  /\ console = {}
  /\ now = 1
  /\ usedIds = {}
  /\ written = {}
  /\ interrupted = {}
  /\ used = [crash |-> 0, io |-> 0, conn |-> 0, raw |-> 0, start |-> 0, reg |-> 0,
             get |-> 0, exit |-> 0]
  /\ bees = <<>>
  /\ beesDisk = InitBees
  /\ container = [b \in Bees |-> IF b \in Started THEN "running" ELSE "none"]
  /\ live = {}
  /\ starts = {}
  /\ lastOp = NoOp
  /\ hierarchy = [b \in Bees |-> IF b \in Started
                                 THEN hierarchyFile(swarmDisk, beesDisk, b)
                                 ELSE NoHierarchy]
  /\ created = [b \in Bees |-> IF b \in Started THEN 1 ELSE 0]
  /\ beeStates = [b \in Bees |-> "unset"]
  /\ gets = {}
  /\ runner = [b \in Bees |-> NoRunner]
  /\ transcript = NoTranscript
  /\ resolve = NoResolve

\* The process is not running, the containers of the bees started before
\* are, and the directories are empty.
Init ==
  /\ InitState
  /\ fs = [d \in Dirs |-> {}]

\* The same with the default configuration and one mail waiting in the inbox
\* of b1, whose runner has not listed the inbox yet.
InitBacklog ==
  /\ InitState
  /\ swarmDisk = DefaultConnections
  /\ fs = [d \in Dirs |-> IF d = BeeDir("inbox", "b1") THEN {OldFile} ELSE {}]

(* ---------------------------- environment ------------------------------ *)
\* The clock advances.
Tick ==
  /\ now < MaxTime
  /\ now' = now + 1
  /\ UNCHANGED <<up, connections, swarmDisk, cfgWrites, beeDirs, fs, humanInbox,
                 humanOutbox, humanDisk, watchers, seen, handlers, requests,
                 events, console, usedIds, written, interrupted, used>>
  /\ UNCHANGED lifecycle
  /\ UNCHANGED supervisor
  /\ UNCHANGED runner
  /\ UNCHANGED transcript
  /\ UNCHANGED resolve

\* The send_mail tool of bee b's container: a new mail with a fresh uuid, written
\* to /outbox/`${Date.now()}-${id}.json`. The container runs whether or not the
\* orchestrator does.
AgentSendMail(b, to, id) ==
  /\ container[b] = "running"
  /\ Cardinality(written) < MaxMail
  /\ id \notin usedIds
  /\ LET mail == [id |-> id, from |-> b, to |-> to, type |-> "agent",
                  inReplyTo |-> 0, status |-> "queued"]
         file == [name |-> FileName(now, id), raw |-> Stringify(mail)]
     IN /\ fs' = [fs EXCEPT ![BeeDir("outbox", b)] = PutFile(@, file)]
        /\ written' = written \cup {[mail |-> mail, name |-> file.name,
                                      watched |-> up /\ LiveWatchers(b) # {}]}
  /\ usedIds' = usedIds \cup {id}
  /\ UNCHANGED <<up, connections, swarmDisk, cfgWrites, beeDirs, humanInbox,
                 humanOutbox, humanDisk, watchers, seen, handlers, requests,
                 events, console, now, interrupted, used>>
  /\ UNCHANGED lifecycle
  /\ UNCHANGED supervisor
  /\ UNCHANGED runner
  /\ UNCHANGED transcript
  /\ UNCHANGED resolve

\* The agent writes a mail file into /outbox itself, with its Write tool: a
\* mail as send_mail makes it with one more field, which no code of the
\* orchestrator knows.
AgentWriteMail(b, to, id) ==
  /\ container[b] = "running"
  /\ Cardinality(written) < MaxMail
  /\ id \notin usedIds
  /\ LET mail == [id |-> id, from |-> b, to |-> to, type |-> "agent",
                  inReplyTo |-> 0, status |-> "queued", extra |-> "kept"]
         file == [name |-> FileName(now, id), raw |-> Stringify(mail)]
     IN /\ fs' = [fs EXCEPT ![BeeDir("outbox", b)] = PutFile(@, file)]
        /\ written' = written \cup {[mail |-> mail, name |-> file.name,
                                      watched |-> up /\ LiveWatchers(b) # {}]}
  /\ usedIds' = usedIds \cup {id}
  /\ UNCHANGED <<up, connections, swarmDisk, cfgWrites, beeDirs, humanInbox,
                 humanOutbox, humanDisk, watchers, seen, handlers, requests,
                 events, console, now, interrupted, used>>
  /\ UNCHANGED lifecycle
  /\ UNCHANGED supervisor
  /\ UNCHANGED runner
  /\ UNCHANGED transcript
  /\ UNCHANGED resolve

\* What the agent's Write and Bash tools can leave in /outbox besides send_mail's
\* files: a .json file that does not parse, a mail shaped like a bounce, a file
\* without the .json suffix.
RawFiles(to, id, t) ==
  { [name |-> FileName(t, id), raw |-> Garbage],
    [name |-> FileName(t, id),
     raw |-> Stringify([id |-> id, from |-> "system", to |-> to, type |-> "bounce",
                        inReplyTo |-> id, status |-> "queued"])],
    [name |-> [ts |-> t, id |-> id, ext |-> "tmp"], raw |-> Garbage] }

AgentWriteRaw(b, to, id) ==
  /\ container[b] = "running"
  /\ used.raw < MaxRaw
  /\ id = FreshId
  /\ \E file \in RawFiles(to, id, now) :
       fs' = [fs EXCEPT ![BeeDir("outbox", b)] = PutFile(@, file)]
  /\ usedIds' = usedIds \cup {id}
  /\ used' = [used EXCEPT !.raw = @ + 1]
  /\ UNCHANGED <<up, connections, swarmDisk, cfgWrites, beeDirs, humanInbox,
                 humanOutbox, humanDisk, watchers, seen, handlers, requests,
                 events, console, now, written, interrupted>>
  /\ UNCHANGED lifecycle
  /\ UNCHANGED supervisor
  /\ UNCHANGED runner
  /\ UNCHANGED transcript
  /\ UNCHANGED resolve

(* ------------------------- process start and stop ---------------------- *)
\* chokidar.watch with ignoreInitial: true: the files the directory holds when
\* the watcher is created count as reported.
ignoreInitial_True(b, w, dir) == {<<b, w, f.name>> : f \in dir}

\* chokidar.watch(outboxDir, { ignoreInitial: false }): the paths watcher w of
\* bee b counts as reported when it is created, of the files in dir: none, so
\* 'add' is emitted for each of them.
ignoreInitial(b, w, dir) == {}

\* watchBeeOutbox(beeId): any existing watcher is closed and a new one, with
\* ignoreInitial: false, takes its place in the map.
watchBeeOutbox(ws, b) == [ws EXCEPT ![b] = @ + 1]

\* main(): swarm.initialize() reads swarm.json, loadHumanMailbox() reads
\* human-mailbox.json, and every bee whose data directory exists gets an outbox
\* watcher; then the server listens.
Main ==
  /\ ~up
  /\ up' = TRUE
  /\ connections' = swarmDisk
  /\ humanInbox' = humanDisk.inbox
  /\ humanOutbox' = humanDisk.outbox
  /\ bees' = beesDisk
  /\ watchers' = [b \in Bees |-> IF b \in Range(beesDisk) \cap beeDirs
                                  THEN watchBeeOutbox(watchers, b)[b]
                                  ELSE watchers[b]]
  /\ live' = {<<b, watchers'[b]>> : b \in Range(beesDisk) \cap beeDirs \cap Bees}
  /\ seen' = UNION {ignoreInitial(l[1], l[2], fs[BeeDir("outbox", l[1])]) : l \in live'}
  /\ beeStates' = [b \in Bees |-> IF b \in Range(beesDisk)
                                   THEN getBeeStatus(container[b]) ELSE "unset"]
  /\ lastOp' = IF lastOp.stage = "restarting"
               THEN [lastOp EXCEPT !.stage = "restarted"] ELSE lastOp
  /\ UNCHANGED <<swarmDisk, cfgWrites, beeDirs, fs, humanDisk, handlers, requests,
                 events, console, now, usedIds, written, interrupted, used,
                 beesDisk, container, starts, hierarchy, created, gets>>
  /\ UNCHANGED runner
  /\ UNCHANGED transcript
  /\ UNCHANGED resolve

\* A callback that has unlinked its outbox file and not yet written the inbox file.
Routing(h) == h.pc \in {"mkdir", "write"}

\* The process is killed: everything in memory is gone (the arrays, the watchers,
\* the callbacks and requests in flight, the writes not yet finished); what is on
\* disk stays.
Crash ==
  /\ up
  /\ used.crash < MaxCrash
  /\ up' = FALSE
  /\ connections' = <<>>
  /\ cfgWrites' = {}
  /\ humanInbox' = <<>>
  /\ humanOutbox' = <<>>
  /\ watchers' = [b \in Bees |-> 0]
  /\ seen' = {}
  /\ live' = {}
  /\ starts' = {}
  /\ bees' = <<>>
  /\ lastOp' = IF lastOp.stage = "returned"
               THEN [lastOp EXCEPT !.stage = "restarting"] ELSE NoOp
  /\ beeStates' = [b \in Bees |-> "unset"]
  /\ gets' = {g \in gets : g.pc = "done"}
  /\ handlers' = {}
  /\ requests' = {r \in requests : r.pc = "done"}
  /\ interrupted' = interrupted \cup {h.mail : h \in {x \in handlers : Routing(x)}}
  /\ used' = [used EXCEPT !.crash = @ + 1]
  /\ UNCHANGED <<swarmDisk, beeDirs, fs, humanDisk, events, console, now, usedIds,
                 written, beesDisk, container, hierarchy, created>>
  /\ UNCHANGED runner
  /\ UNCHANGED transcript
  /\ UNCHANGED resolve

(* ---------------------------- outbox watcher --------------------------- *)
Replace(set, old, new) == (set \ {old}) \cup {new}

\* A watcher that handles the files of its outbox one after the other and
\* stops at a file whose callback failed.
OutboxAdd_StopAtCorrupt(b) ==
  /\ up
  /\ \A g \in fs[BeeDir("outbox", b)] :
       ~(g.name.ext = "json" /\ ParseThrows(g.raw))
  /\ \E w \in LiveWatchers(b), f \in fs[BeeDir("outbox", b)] :
       /\ f.name \notin SeenBy(b, w)
       /\ seen' = seen \cup {<<b, w, f.name>>}
       /\ handlers' =
            IF f.name.ext # "json" THEN handlers
            ELSE handlers \cup {[bee |-> b, w |-> w, name |-> f.name,
                                 pc |-> "read", mail |-> NoMail, fname |-> NoName,
                                 snap |-> NoSnap]}
  /\ UNCHANGED <<up, connections, swarmDisk, cfgWrites, beeDirs, fs, humanInbox,
                 humanOutbox, humanDisk, watchers, requests, events, console, now,
                 usedIds, written, interrupted, used>>
  /\ UNCHANGED lifecycle
  /\ UNCHANGED supervisor
  /\ UNCHANGED runner
  /\ UNCHANGED transcript
  /\ UNCHANGED resolve

\* A watcher of bee b that is not closed emits 'add' for a path of the outbox
\* it has not reported yet (the initial scan and later arrivals alike). The
\* callback returns at once for a name that does not end in .json; otherwise it
\* starts fs.readFile.
OutboxAdd(b) ==
  /\ up
  /\ \E w \in LiveWatchers(b), f \in fs[BeeDir("outbox", b)] :
       /\ f.name \notin SeenBy(b, w)
       /\ seen' = seen \cup {<<b, w, f.name>>}
       /\ handlers' =
            IF f.name.ext # "json" THEN handlers
            ELSE handlers \cup {[bee |-> b, w |-> w, name |-> f.name,
                                 pc |-> "read", mail |-> NoMail, fname |-> NoName,
                                 snap |-> NoSnap]}
  /\ UNCHANGED <<up, connections, swarmDisk, cfgWrites, beeDirs, fs, humanInbox,
                 humanOutbox, humanDisk, watchers, requests, events, console, now,
                 usedIds, written, interrupted, used>>
  /\ UNCHANGED lifecycle
  /\ UNCHANGED supervisor
  /\ UNCHANGED runner
  /\ UNCHANGED transcript
  /\ UNCHANGED resolve

\* readFile returns and JSON.parse runs; then fs.unlink starts. A missing file
\* or a text that does not parse lands in the catch, which only prints.
HandlerRead(h) ==
  /\ h.pc = "read"
  /\ LET dir == fs[BeeDir("outbox", h.bee)]
     IN IF ~HasFile(dir, h.name) \/ ParseThrows(TheFile(dir, h.name).raw)
        THEN /\ console' = console \cup {<<"Error processing outbox file", h.name>>}
             /\ handlers' = handlers \ {h}
        ELSE /\ handlers' = Replace(handlers, h,
                    [h EXCEPT !.pc = "unlink", !.mail = Parse(TheFile(dir, h.name).raw)])
             /\ UNCHANGED console
  /\ UNCHANGED <<up, connections, swarmDisk, cfgWrites, beeDirs, fs, humanInbox,
                 humanOutbox, humanDisk, watchers, seen, requests, events, now,
                 usedIds, written, interrupted, used>>
  /\ UNCHANGED lifecycle
  /\ UNCHANGED supervisor
  /\ UNCHANGED runner
  /\ UNCHANGED transcript
  /\ UNCHANGED resolve

\* unlink returns (its error swallowed) and routeOutboundMail(mail) runs up to
\* its first await: for to = human the push onto humanInbox and the start of
\* saveHumanMailbox(); otherwise swarm.routeMail up to mkdir, or its throw, which
\* routeOutboundMail catches, printing and broadcasting mail:failed.
HandlerUnlink(h) ==
  /\ h.pc = "unlink"
  /\ fs' = [fs EXCEPT ![BeeDir("outbox", h.bee)] = RemoveFile(@, h.name)]
  /\ IF h.mail.to = "human"
     THEN LET m == [h.mail EXCEPT !.status = "delivered"]
          IN /\ humanInbox' = Append(humanInbox, m)
             /\ handlers' = Replace(handlers, h,
                    [h EXCEPT !.pc = "save", !.mail = m,
                              !.snap = [inbox |-> Append(humanInbox, m),
                                        outbox |-> humanOutbox]])
             /\ UNCHANGED <<events, console>>
     ELSE IF RouteMailEntry(connections, h.mail) = "throw"
     THEN /\ console' = console \cup {<<"Mail routing failed", h.name>>}
          /\ events' = events \cup {<<"mail:failed", [h.mail EXCEPT !.status = "failed"]>>}
          /\ handlers' = handlers \ {h}
          /\ UNCHANGED humanInbox
     ELSE /\ handlers' = Replace(handlers, h, [h EXCEPT !.pc = "mkdir"])
          /\ UNCHANGED <<humanInbox, events, console>>
  /\ UNCHANGED <<up, connections, swarmDisk, cfgWrites, beeDirs, humanOutbox,
                 humanDisk, watchers, seen, requests, now, usedIds, written,
                 interrupted, used>>
  /\ UNCHANGED lifecycle
  /\ UNCHANGED supervisor
  /\ UNCHANGED runner
  /\ UNCHANGED transcript
  /\ UNCHANGED resolve

\* saveHumanMailbox()'s writeFile ends: the file holds the arrays as they were
\* when the write began, and mail:received is broadcast; a failed write throws
\* into the callback's catch.
HandlerSaveDone(h, ok) ==
  /\ h.pc = "save"
  /\ ok \/ used.io < MaxIOFail
  /\ handlers' = handlers \ {h}
  /\ IF ok
     THEN /\ humanDisk' = h.snap
          /\ events' = events \cup {<<"mail:received", h.mail>>}
          /\ UNCHANGED <<console, used>>
     ELSE /\ console' = console \cup {<<"Error processing outbox file", h.name>>}
          /\ used' = [used EXCEPT !.io = @ + 1]
          /\ UNCHANGED <<humanDisk, events>>
  /\ UNCHANGED <<up, connections, swarmDisk, cfgWrites, beeDirs, fs, humanInbox,
                 humanOutbox, watchers, seen, requests, now, usedIds, written,
                 interrupted>>
  /\ UNCHANGED lifecycle
  /\ UNCHANGED supervisor
  /\ UNCHANGED runner
  /\ UNCHANGED transcript
  /\ UNCHANGED resolve

\* routeMail's mkdir ends: the file name is computed from Date.now() and
\* fs.writeFile starts.
HandlerMkdirDone(h) ==
  /\ h.pc = "mkdir"
  /\ beeDirs' = beeDirs \cup ({h.mail.to} \cap Bees)
  /\ handlers' = Replace(handlers, h,
         [h EXCEPT !.pc = "write", !.fname = FileName(now, h.mail.id)])
  /\ UNCHANGED <<up, connections, swarmDisk, cfgWrites, fs, humanInbox, humanOutbox,
                 humanDisk, watchers, seen, requests, events, console, now, usedIds,
                 written, interrupted, used>>
  /\ UNCHANGED lifecycle
  /\ UNCHANGED supervisor
  /\ UNCHANGED runner
  /\ UNCHANGED transcript
  /\ UNCHANGED resolve

\* routeMail's writeFile ends: the mail is in the recipient's inbox and
\* mail:routed is broadcast; a failed write throws, which routeOutboundMail
\* catches like the topology rejection.
HandlerWriteDone(h, ok) ==
  /\ h.pc = "write"
  /\ ok \/ used.io < MaxIOFail
  /\ handlers' = handlers \ {h}
  /\ IF ok
     THEN /\ fs' = [fs EXCEPT ![BeeDir("inbox", h.mail.to)] =
                      PutFile(@, [name |-> h.fname, raw |-> Stringify(h.mail)])]
          /\ events' = events \cup {<<"mail:routed", h.mail>>}
          /\ UNCHANGED <<console, used>>
     ELSE /\ console' = console \cup {<<"Mail routing failed", h.name>>}
          /\ events' = events \cup {<<"mail:failed", [h.mail EXCEPT !.status = "failed"]>>}
          /\ used' = [used EXCEPT !.io = @ + 1]
          /\ UNCHANGED fs
  /\ UNCHANGED <<up, connections, swarmDisk, cfgWrites, beeDirs, humanInbox,
                 humanOutbox, humanDisk, watchers, seen, requests, now, usedIds,
                 written, interrupted>>
  /\ UNCHANGED lifecycle
  /\ UNCHANGED supervisor
  /\ UNCHANGED runner
  /\ UNCHANGED transcript
  /\ UNCHANGED resolve

(* ------------------------- POST /api/mail/send ------------------------- *)
Respond(r, status, error) ==
  [r EXCEPT !.pc = "done", !.status = status, !.error = error]

\* The mail object is built, pushed onto humanOutbox, and saveHumanMailbox()
\* starts.
SendCreate(r, id) ==
  LET mail == [id |-> id, from |-> "human", to |-> r.to, type |-> "human",
               inReplyTo |-> 0, status |-> "queued"]
  IN /\ humanOutbox' = Append(humanOutbox, mail)
     /\ usedIds' = usedIds \cup {id}
     /\ requests' = Replace(requests, r,
            [r EXCEPT !.pc = "save", !.mail = mail,
                      !.snap = [inbox |-> humanInbox,
                                outbox |-> Append(humanOutbox, mail)]])

\* A request arrives: the field check, then the gateway's own topology check,
\* each answered with 400 at once; then the attachments, read one by one, or,
\* with none, the mail itself.
MailSend(to, att, id) ==
  /\ up
  /\ Cardinality(requests) < MaxSend
  /\ id = FreshId
  /\ LET r == [rid |-> Cardinality(requests) + 1, to |-> to, att |-> att,
               pc |-> "new", mail |-> NoMail, fname |-> NoName, snap |-> NoSnap,
               status |-> 0, error |-> ""]
     IN IF to = ""
        THEN /\ requests' = requests \cup {Respond(r, 400, "to, subject, and body required")}
             /\ UNCHANGED <<humanOutbox, usedIds>>
        ELSE IF ~canSendMail(connections, "human", to)
        THEN /\ requests' = requests \cup {Respond(r, 400, "No connection")}
             /\ UNCHANGED <<humanOutbox, usedIds>>
        ELSE IF att # "none"
        THEN /\ requests' = requests \cup {[r EXCEPT !.pc = "attach"]}
             /\ UNCHANGED <<humanOutbox, usedIds>>
        ELSE SendCreate(r, id)
  /\ UNCHANGED <<up, connections, swarmDisk, cfgWrites, beeDirs, fs, humanInbox,
                 humanDisk, watchers, seen, handlers, events, console, now,
                 written, interrupted, used>>
  /\ UNCHANGED lifecycle
  /\ UNCHANGED supervisor
  /\ UNCHANGED runner
  /\ UNCHANGED transcript
  /\ UNCHANGED resolve

\* The reads of the attachments' metadata end: a missing one answers 400.
SendAttachDone(r, id) ==
  /\ r.pc = "attach"
  /\ id = FreshId
  /\ IF r.att = "missing"
     THEN /\ requests' = Replace(requests, r, Respond(r, 400, "Attachment not found"))
          /\ UNCHANGED <<humanOutbox, usedIds>>
     ELSE SendCreate(r, id)
  /\ UNCHANGED <<up, connections, swarmDisk, cfgWrites, beeDirs, fs, humanInbox,
                 humanDisk, watchers, seen, handlers, events, console, now,
                 written, interrupted, used>>
  /\ UNCHANGED lifecycle
  /\ UNCHANGED supervisor
  /\ UNCHANGED runner
  /\ UNCHANGED transcript
  /\ UNCHANGED resolve

\* saveHumanMailbox() ends and swarm.routeMail(mail) runs up to its first
\* await. Whatever is thrown (the write's error, routeMail's "No connection")
\* is answered with 500.
SendSaveDone(r, ok) ==
  /\ r.pc = "save"
  /\ ok \/ used.io < MaxIOFail
  /\ IF ~ok
     THEN /\ requests' = Replace(requests, r, Respond(r, 500, "EIO"))
          /\ used' = [used EXCEPT !.io = @ + 1]
          /\ UNCHANGED <<humanDisk, events>>
     ELSE /\ humanDisk' = r.snap
          /\ UNCHANGED used
          /\ IF RouteMailEntry(connections, r.mail) = "throw"
             THEN /\ requests' = Replace(requests, r, Respond(r, 500, "No connection"))
                  /\ UNCHANGED events
             ELSE IF RouteMailEntry(connections, r.mail) = "toHuman"
             THEN /\ requests' = Replace(requests, r, Respond(r, 200, ""))
                  /\ events' = events \cup {<<"mail:sent", r.mail>>}
             ELSE /\ requests' = Replace(requests, r, [r EXCEPT !.pc = "mkdir"])
                  /\ UNCHANGED events
  /\ UNCHANGED <<up, connections, swarmDisk, cfgWrites, beeDirs, fs, humanInbox,
                 humanOutbox, watchers, seen, handlers, console, now, usedIds,
                 written, interrupted>>
  /\ UNCHANGED lifecycle
  /\ UNCHANGED supervisor
  /\ UNCHANGED runner
  /\ UNCHANGED transcript
  /\ UNCHANGED resolve

\* A router that looks at the connections again when its mkdir has ended.
SendMkdirDone_Recheck(r) ==
  /\ r.pc = "mkdir"
  /\ beeDirs' = beeDirs \cup ({r.mail.to} \cap Bees)
  /\ requests' = Replace(requests, r,
         IF canSendMail(connections, r.mail.from, r.mail.to)
         THEN [r EXCEPT !.pc = "write", !.fname = FileName(now, r.mail.id)]
         ELSE Respond(r, 500, "No connection"))
  /\ UNCHANGED <<up, connections, swarmDisk, cfgWrites, fs, humanInbox, humanOutbox,
                 humanDisk, watchers, seen, handlers, events, console, now, usedIds,
                 written, interrupted, used>>
  /\ UNCHANGED lifecycle
  /\ UNCHANGED supervisor
  /\ UNCHANGED runner
  /\ UNCHANGED transcript
  /\ UNCHANGED resolve

\* routeMail's mkdir ends in a request: the file name is computed and
\* fs.writeFile starts. The connections are not looked at again.
SendMkdirDone(r) ==
  /\ r.pc = "mkdir"
  /\ beeDirs' = beeDirs \cup ({r.mail.to} \cap Bees)
  /\ requests' = Replace(requests, r,
         [r EXCEPT !.pc = "write", !.fname = FileName(now, r.mail.id)])
  /\ UNCHANGED <<up, connections, swarmDisk, cfgWrites, fs, humanInbox, humanOutbox,
                 humanDisk, watchers, seen, handlers, events, console, now, usedIds,
                 written, interrupted, used>>
  /\ UNCHANGED lifecycle
  /\ UNCHANGED supervisor
  /\ UNCHANGED runner
  /\ UNCHANGED transcript
  /\ UNCHANGED resolve

\* routeMail's writeFile has opened the file in the inbox and not written all
\* of it: the name is listed, the content is not the mail yet.
SendWriteBegin(r) ==
  /\ r.pc = "write"
  /\ fs' = [fs EXCEPT ![BeeDir("inbox", r.mail.to)] =
               PutFile(@, [name |-> r.fname, raw |-> Partial])]
  /\ requests' = Replace(requests, r, [r EXCEPT !.pc = "writing"])
  /\ UNCHANGED <<up, connections, swarmDisk, cfgWrites, beeDirs, humanInbox,
                 humanOutbox, humanDisk, watchers, seen, handlers, events,
                 console, now, usedIds, written, interrupted, used>>
  /\ UNCHANGED lifecycle
  /\ UNCHANGED supervisor
  /\ UNCHANGED runner
  /\ UNCHANGED transcript
  /\ UNCHANGED resolve

\* routeMail's writeFile ends, whether or not the file was seen half written.
SendWriteDone(r, ok) ==
  /\ r.pc \in {"write", "writing"}
  /\ ok \/ used.io < MaxIOFail
  /\ IF ok
     THEN /\ fs' = [fs EXCEPT ![BeeDir("inbox", r.mail.to)] =
                      PutFile(@, [name |-> r.fname, raw |-> Stringify(r.mail)])]
          /\ requests' = Replace(requests, r, Respond(r, 200, ""))
          /\ events' = events \cup {<<"mail:sent", r.mail>>}
          /\ UNCHANGED used
     ELSE /\ requests' = Replace(requests, r, Respond(r, 500, "EIO"))
          /\ used' = [used EXCEPT !.io = @ + 1]
          /\ UNCHANGED <<fs, events>>
  /\ UNCHANGED <<up, connections, swarmDisk, cfgWrites, beeDirs, humanInbox,
                 humanOutbox, humanDisk, watchers, seen, handlers, console, now,
                 usedIds, written, interrupted>>
  /\ UNCHANGED lifecycle
  /\ UNCHANGED supervisor
  /\ UNCHANGED runner
  /\ UNCHANGED transcript
  /\ UNCHANGED resolve

(* --------------------------- /api/connections -------------------------- *)
\* JSON.stringify(this.swarmConfig) as saveConfig() hands it to fs.writeFile.
Snapshot(bs, conns) == [bees |-> bs, connections |-> conns]

\* POST: addConnection changes the list and starts saveConfig() without
\* awaiting it; swarm:updated is broadcast.
AddConnection(from, to, bidirectional) ==
  /\ up
  /\ used.conn < MaxConnOps
  /\ connections' = addConnection(connections, from, to, bidirectional)
  /\ cfgWrites' = cfgWrites \cup {Snapshot(bees, connections')}
  /\ events' = events \cup {<<"swarm:updated", NoMail>>}
  /\ used' = [used EXCEPT !.conn = @ + 1]
  /\ lastOp' = [op |-> "add", from |-> from, to |-> to,
                bidirectional |-> bidirectional, before |-> connections,
                beesBefore |-> bees, stage |-> "", cfg |-> <<>>]
  /\ UNCHANGED <<up, swarmDisk, beeDirs, fs, humanInbox, humanOutbox, humanDisk,
                 watchers, seen, handlers, requests, console, now, usedIds, written,
                 interrupted, bees, beesDisk, container, live, starts>>
  /\ UNCHANGED supervisor
  /\ UNCHANGED runner
  /\ UNCHANGED transcript
  /\ UNCHANGED resolve

\* DELETE: the same with removeConnection.
RemoveConnection(from, to, bidirectional) ==
  /\ up
  /\ used.conn < MaxConnOps
  /\ connections' = removeConnection(connections, from, to, bidirectional)
  /\ cfgWrites' = cfgWrites \cup {Snapshot(bees, connections')}
  /\ events' = events \cup {<<"swarm:updated", NoMail>>}
  /\ used' = [used EXCEPT !.conn = @ + 1]
  /\ lastOp' = [op |-> "remove", from |-> from, to |-> to,
                bidirectional |-> bidirectional, before |-> connections,
                beesBefore |-> bees, stage |-> "", cfg |-> <<>>]
  /\ UNCHANGED <<up, swarmDisk, beeDirs, fs, humanInbox, humanOutbox, humanDisk,
                 watchers, seen, handlers, requests, console, now, usedIds, written,
                 interrupted, bees, beesDisk, container, live, starts>>
  /\ UNCHANGED supervisor
  /\ UNCHANGED runner
  /\ UNCHANGED transcript
  /\ UNCHANGED resolve

\* A saveConfig() write ends: swarm.json holds the list as it was when the
\* write began.
SaveConfigDone(snapshot) ==
  /\ snapshot \in cfgWrites
  /\ swarmDisk' = snapshot.connections
  /\ beesDisk' = snapshot.bees
  /\ cfgWrites' = cfgWrites \ {snapshot}
  /\ lastOp' = IF lastOp.stage = "writing" /\ snapshot = lastOp.cfg
               THEN [lastOp EXCEPT !.stage = "returned"] ELSE lastOp
  /\ UNCHANGED <<up, connections, beeDirs, fs, humanInbox, humanOutbox, humanDisk,
                 watchers, seen, handlers, requests, events, console, now, usedIds,
                 written, interrupted, used, bees, container, live, starts>>
  /\ UNCHANGED supervisor
  /\ UNCHANGED runner
  /\ UNCHANGED transcript
  /\ UNCHANGED resolve

\* PATCH: updateConnectionBidirectional, which starts saveConfig() on either
\* branch.
UpdateConnection(from, to, bidirectional) ==
  /\ up
  /\ used.conn < MaxConnOps
  /\ connections' = updateConnectionBidirectional(connections, from, to, bidirectional)
  /\ cfgWrites' = cfgWrites \cup {Snapshot(bees, connections')}
  /\ events' = events \cup {<<"swarm:updated", NoMail>>}
  /\ used' = [used EXCEPT !.conn = @ + 1]
  /\ lastOp' = [op |-> "setBidir", from |-> from, to |-> to,
                bidirectional |-> bidirectional, before |-> connections,
                beesBefore |-> bees, stage |-> "", cfg |-> <<>>]
  /\ UNCHANGED <<up, swarmDisk, beeDirs, fs, humanInbox, humanOutbox, humanDisk,
                 watchers, seen, handlers, requests, console, now, usedIds, written,
                 interrupted, bees, beesDisk, container, live, starts>>
  /\ UNCHANGED supervisor
  /\ UNCHANGED runner
  /\ UNCHANGED transcript
  /\ UNCHANGED resolve

(* ----------------------- /api/swarm and /api/bees ---------------------- *)
\* PUT /api/swarm: setConfig takes the request body as the configuration and
\* saves it.
SetConfig(config) ==
  /\ up
  /\ used.reg < MaxRegOps
  /\ bees' = config.bees
  /\ connections' = config.connections
  /\ cfgWrites' = cfgWrites \cup {Snapshot(bees', connections')}
  /\ events' = events \cup {<<"swarm:updated", NoMail>>}
  /\ used' = [used EXCEPT !.reg = @ + 1]
  /\ lastOp' = [op |-> "put", from |-> "", to |-> "", bidirectional |-> FALSE,
                before |-> connections, beesBefore |-> bees,
                stage |-> "writing", cfg |-> config]
  /\ UNCHANGED <<up, swarmDisk, beeDirs, fs, humanInbox, humanOutbox, humanDisk,
                 watchers, seen, handlers, requests, console, now, usedIds, written,
                 interrupted, beesDisk, container, live, starts>>
  /\ UNCHANGED supervisor
  /\ UNCHANGED runner
  /\ UNCHANGED transcript
  /\ UNCHANGED resolve

\* POST /api/bees: addBee throws for an id the list holds (answered 500,
\* nothing changed); otherwise the bee is pushed and the configuration saved.
AddBee(id) ==
  /\ up
  /\ used.reg < MaxRegOps
  /\ used' = [used EXCEPT !.reg = @ + 1]
  /\ lastOp' = [op |-> "addBee", from |-> id, to |-> "", bidirectional |-> FALSE,
                before |-> connections, beesBefore |-> bees, stage |-> "",
                cfg |-> <<>>]
  /\ IF id \in Range(bees)
     THEN UNCHANGED <<bees, cfgWrites, events, beeStates>>
     ELSE /\ bees' = Append(bees, id)
          /\ cfgWrites' = cfgWrites \cup {Snapshot(bees', connections)}
          /\ events' = events \cup {<<"swarm:updated", NoMail>>}
          /\ beeStates' = [b \in Bees |-> IF b = id THEN "stopped" ELSE beeStates[b]]
  /\ UNCHANGED <<up, connections, swarmDisk, beeDirs, fs, humanInbox, humanOutbox,
                 humanDisk, watchers, seen, handlers, requests, console, now,
                 usedIds, written, interrupted, beesDisk, container, live, starts,
                 hierarchy, created, gets>>
  /\ UNCHANGED runner
  /\ UNCHANGED transcript
  /\ UNCHANGED resolve

\* DELETE /api/bees/:id: removeBee stops the bee (stopBee throws for an id the
\* list does not hold: 500, nothing changed), filters the bee and the
\* connections that name it out of the configuration, saves it and removes the
\* bee's data directory; then the bee's outbox watcher is closed and taken out
\* of the map.
RemoveBee(id) ==
  /\ up
  /\ used.reg < MaxRegOps
  /\ used' = [used EXCEPT !.reg = @ + 1]
  /\ lastOp' = [op |-> "removeBee", from |-> id, to |-> "", bidirectional |-> FALSE,
                before |-> connections, beesBefore |-> bees, stage |-> "",
                cfg |-> <<>>]
  /\ IF id \notin Range(bees)
     THEN UNCHANGED <<bees, connections, cfgWrites, events, container, beeDirs, fs,
                      watchers, live, seen, hierarchy, beeStates>>
     ELSE /\ bees' = SelectSeqBy(bees, Range(bees) \ {id})
          /\ connections' = SelectSeqBy(connections,
                 {c \in Range(connections) : c.from # id /\ c.to # id})
          /\ cfgWrites' = cfgWrites \cup {Snapshot(bees', connections')}
          /\ events' = events \cup {<<"swarm:updated", NoMail>>}
          /\ container' = [b \in Bees |->
                 IF b = id /\ container[b] = "running" THEN "exited" ELSE container[b]]
          /\ beeDirs' = beeDirs \ {id}
          /\ fs' = [d \in Dirs |-> IF d[2] = id THEN {} ELSE fs[d]]
          /\ watchers' = [b \in Bees |-> IF b = id THEN 0 ELSE watchers[b]]
          /\ live' = {l \in live : ~(l[1] = id /\ l[2] = watchers[l[1]])}
          /\ seen' = {t \in seen : ~(t[1] = id /\ t[2] = watchers[t[1]])}
          /\ hierarchy' = [b \in Bees |-> IF b = id THEN NoHierarchy ELSE hierarchy[b]]
          /\ beeStates' = [b \in Bees |-> IF b = id THEN "unset" ELSE beeStates[b]]
  /\ UNCHANGED <<up, swarmDisk, humanInbox, humanOutbox, humanDisk, handlers,
                 requests, console, now, usedIds, written, interrupted, beesDisk,
                 starts, created, gets>>
  /\ UNCHANGED runner
  /\ UNCHANGED transcript
  /\ UNCHANGED resolve

(* ---------------------- /api/bees/:id/start, stop ---------------------- *)
\* POST /api/bees/:id/start arrives: swarm.startBee throws for an id the
\* registry does not hold (answered 500); otherwise its Docker calls begin.
StartRequest(b) ==
  /\ up
  /\ used.start < MaxStart
  /\ used' = [used EXCEPT !.start = @ + 1]
  /\ starts' = IF b \in Range(bees)
               THEN starts \cup {[sid |-> used.start + 1, bee |-> b,
                                  pc |-> "startBee", existing |-> 0]}
               ELSE starts
  /\ UNCHANGED <<up, connections, swarmDisk, cfgWrites, beeDirs, fs, humanInbox,
                 humanOutbox, humanDisk, watchers, seen, handlers, requests,
                 events, console, now, usedIds, written, interrupted, bees,
                 beesDisk, container, live, lastOp>>
  /\ UNCHANGED supervisor
  /\ UNCHANGED runner
  /\ UNCHANGED transcript
  /\ UNCHANGED resolve

\* startBee returns. A container that exists is started again if it does not
\* run, and nothing else is done; without one the bee's data directories, its
\* soul file and state/hierarchy.json are written and a container is created
\* and started. Either way the state is recorded as running, and
\* watchBeeOutbox(beeId) begins with fs.mkdir.
StartBeeDone(s) ==
  /\ s.pc = "startBee"
  /\ container' = [container EXCEPT ![s.bee] = "running"]
  /\ IF container[s.bee] = "none"
     THEN /\ hierarchy' = [hierarchy EXCEPT
                             ![s.bee] = hierarchyFile(connections, bees, s.bee)]
          /\ created' = [created EXCEPT ![s.bee] = @ + 1]
     ELSE UNCHANGED <<hierarchy, created>>
  /\ beeStates' = [beeStates EXCEPT ![s.bee] = "running"]
  /\ beeDirs' = beeDirs \cup {s.bee}
  /\ starts' = Replace(starts, s, [s EXCEPT !.pc = "mkdir"])
  /\ runner' = [runner EXCEPT ![s.bee] =
                  IF container[s.bee] = "running" THEN @
                  ELSE [NoRunner EXCEPT !.taken = runner[s.bee].taken,
                                        !.done = runner[s.bee].done,
                                        !.errors = runner[s.bee].errors]]
  /\ UNCHANGED <<up, connections, swarmDisk, cfgWrites, fs, humanInbox,
                 humanOutbox, humanDisk, watchers, seen, handlers, requests,
                 events, console, now, usedIds, written, interrupted, used, bees,
                 beesDisk, live, lastOp, gets>>
  /\ UNCHANGED transcript
  /\ UNCHANGED resolve

\* chokidar.watch(outboxDir) and watchers.set(beeId, watcher).
NewWatcher(s) ==
  /\ watchers' = watchBeeOutbox(watchers, s.bee)
  /\ live' = live \cup {<<s.bee, watchers'[s.bee]>>}
  /\ seen' = seen \cup ignoreInitial(s.bee, watchers'[s.bee],
                                      fs[BeeDir("outbox", s.bee)])
  /\ starts' = starts \ {s}

\* watchBeeOutbox after its mkdir: the watcher the map holds now, if any, is
\* closed (close() detaches its listeners at once, and is awaited); with none
\* the new watcher is created without another await.
WatchMkdirDone(s) ==
  /\ s.pc = "mkdir"
  /\ IF watchers[s.bee] > 0
     THEN /\ live' = live \ {<<s.bee, watchers[s.bee]>>}
          /\ seen' = {t \in seen : ~(t[1] = s.bee /\ t[2] = watchers[s.bee])}
          /\ starts' = Replace(starts, s,
                 [s EXCEPT !.pc = "close", !.existing = watchers[s.bee]])
          /\ UNCHANGED watchers
     ELSE NewWatcher(s)
  /\ UNCHANGED <<up, connections, swarmDisk, cfgWrites, beeDirs, fs, humanInbox,
                 humanOutbox, humanDisk, handlers, requests, events, console, now,
                 usedIds, written, interrupted, used, bees, beesDisk, container,
                 lastOp>>
  /\ UNCHANGED supervisor
  /\ UNCHANGED runner
  /\ UNCHANGED transcript
  /\ UNCHANGED resolve

\* existing.close() has returned: the new watcher is created and put into the
\* map, over whatever the map holds by now.
WatchCloseDone(s) ==
  /\ s.pc = "close"
  /\ NewWatcher(s)
  /\ UNCHANGED <<up, connections, swarmDisk, cfgWrites, beeDirs, fs, humanInbox,
                 humanOutbox, humanDisk, handlers, requests, events, console,
                 now, usedIds, written, interrupted, used, bees, beesDisk,
                 container, lastOp>>
  /\ UNCHANGED supervisor
  /\ UNCHANGED runner
  /\ UNCHANGED transcript
  /\ UNCHANGED resolve

\* A stop that removes the container it has stopped.
StopBee_Remove(b) ==
  /\ up
  /\ b \in Range(bees)
  /\ container[b] = "running"
  /\ container' = [container EXCEPT ![b] = "none"]
  /\ beeStates' = [beeStates EXCEPT ![b] = "stopped"]
  /\ UNCHANGED <<up, connections, swarmDisk, cfgWrites, beeDirs, fs, humanInbox,
                 humanOutbox, humanDisk, watchers, seen, handlers, requests,
                 events, console, now, usedIds, written, interrupted, used, bees,
                 beesDisk, live, starts, lastOp, hierarchy, created, gets>>
  /\ UNCHANGED runner
  /\ UNCHANGED transcript
  /\ UNCHANGED resolve

\* POST /api/bees/:id/stop: stopBee stops the container (a missing or stopped
\* one is not an error) and records running: false. Nothing else is touched.
StopBee(b) ==
  /\ up
  /\ b \in Range(bees)
  /\ container[b] = "running"
  /\ container' = [container EXCEPT ![b] = "exited"]
  /\ beeStates' = [beeStates EXCEPT ![b] = "stopped"]
  /\ UNCHANGED <<up, connections, swarmDisk, cfgWrites, beeDirs, fs, humanInbox,
                 humanOutbox, humanDisk, watchers, seen, handlers, requests,
                 events, console, now, usedIds, written, interrupted, used, bees,
                 beesDisk, live, starts, lastOp, hierarchy, created, gets>>
  /\ UNCHANGED runner
  /\ UNCHANGED transcript
  /\ UNCHANGED resolve

(* ------------------------- the containers' side ----------------------- *)
\* The runner's polling loop in a running container: a .json file of /inbox
\* is read and unlinked, then processed.
RunnerTake(b) ==
  /\ container[b] = "running"
  /\ \E f \in fs[BeeDir("inbox", b)] :
       /\ f.name.ext = "json"
       /\ fs' = [fs EXCEPT ![BeeDir("inbox", b)] = RemoveFile(@, f.name)]
  /\ UNCHANGED <<up, connections, swarmDisk, cfgWrites, beeDirs, humanInbox,
                 humanOutbox, humanDisk, watchers, seen, handlers, requests,
                 events, console, now, usedIds, written, interrupted, used>>
  /\ UNCHANGED lifecycle
  /\ UNCHANGED supervisor
  /\ UNCHANGED runner
  /\ UNCHANGED transcript
  /\ UNCHANGED resolve

RECURSIVE SortNames_Descending(_)
\* The names from the last to the first.
SortNames_Descending(names) ==
  IF names = {} THEN <<>>
  ELSE LET last == CHOOSE x \in names : \A y \in names \ {x} : NameLess(y, x)
       IN <<last>> \o SortNames_Descending(names \ {last})

RECURSIVE SortNames(_)
\* Array.prototype.sort() on file names: ascending as strings.
SortNames(names) ==
  IF names = {} THEN <<>>
  ELSE LET first == CHOOSE x \in names : \A y \in names \ {x} : NameLess(x, y)
       IN <<first>> \o SortNames(names \ {first})

\* The names of the .json files of b's inbox.
JsonNames(b) == {f.name : f \in {x \in fs[BeeDir("inbox", b)] : x.name.ext = "json"}}

\* The for loop goes on to the next file; after the last one of a polling
\* scan lastFiles becomes the set of the names listed, and the runner sleeps.
Advance(rn) ==
  IF Len(rn.scan) > 1
  THEN [rn EXCEPT !.pc = "read", !.scan = Tail(@)]
  ELSE [rn EXCEPT !.pc = "sleep", !.scan = <<>>, !.booting = FALSE,
                  !.lastFiles = IF rn.booting THEN @ ELSE rn.listed]

\* All a runner step leaves alone.
RunnerFrame ==
  /\ UNCHANGED <<up, connections, swarmDisk, cfgWrites, beeDirs, humanInbox,
                 humanOutbox, humanDisk, watchers, seen, handlers, requests,
                 events, console, now, usedIds, written, interrupted, used>>
  /\ UNCHANGED lifecycle
  /\ UNCHANGED supervisor
  /\ UNCHANGED transcript
  /\ UNCHANGED resolve

\* The runner starts: the files /inbox holds are listed and sorted, to be
\* processed before the polling loop begins.
RunnerBoot(b) ==
  /\ container[b] = "running"
  /\ runner[b].pc = "boot"
  /\ runner' = [runner EXCEPT ![b] =
       IF JsonNames(b) = {}
       THEN [@ EXCEPT !.pc = "sleep", !.booting = FALSE]
       ELSE [@ EXCEPT !.pc = "read", !.scan = SortNames(JsonNames(b)),
                      !.listed = JsonNames(b), !.fresh = TRUE]]
  /\ UNCHANGED fs
  /\ RunnerFrame

\* A poll: /inbox is listed, the .json names sorted; with none lastFiles
\* becomes empty and the runner sleeps again.
RunnerPoll(b) ==
  /\ container[b] = "running"
  /\ runner[b].pc = "sleep"
  /\ runner' = [runner EXCEPT ![b] =
       IF JsonNames(b) = {}
       THEN [@ EXCEPT !.lastFiles = {}, !.listed = {}]
       ELSE [@ EXCEPT !.pc = "read", !.scan = SortNames(JsonNames(b)),
                      !.listed = JsonNames(b), !.fresh = TRUE]]
  /\ UNCHANGED fs
  /\ RunnerFrame

\* The next file of the scan: skipped when the last poll listed it already;
\* otherwise read and parsed, which throws for a file that is gone or whose
\* text is not JSON (the error is logged and the file left where it is);
\* otherwise unlinked, and processMail(mail) begins.
RunnerRead(b) ==
  /\ container[b] = "running"
  /\ runner[b].pc = "read"
  /\ LET rn == runner[b]
         name == Head(rn.scan)
         dir == fs[BeeDir("inbox", b)]
     IN IF ~rn.booting /\ name \in rn.lastFiles
        THEN /\ runner' = [runner EXCEPT ![b] = Advance(rn)]
             /\ UNCHANGED fs
        ELSE IF ~HasFile(dir, name)
        THEN /\ runner' = [runner EXCEPT ![b] =
                   Advance([rn EXCEPT !.errors = @ \cup {<<name, "missing">>}])]
             /\ UNCHANGED fs
        ELSE IF ParseThrows(TheFile(dir, name).raw)
        THEN /\ runner' = [runner EXCEPT ![b] =
                   Advance([rn EXCEPT !.errors =
                              @ \cup {<<name, TheFile(dir, name).raw.text>>}])]
             /\ UNCHANGED fs
        ELSE /\ fs' = [fs EXCEPT ![BeeDir("inbox", b)] = RemoveFile(@, name)]
             /\ runner' = [runner EXCEPT ![b] =
                   [rn EXCEPT !.pc = "process",
                              !.mail = Parse(TheFile(dir, name).raw),
                              !.taken = Append(@, [name |-> name, first |-> rn.fresh]),
                              !.fresh = FALSE]]
  /\ RunnerFrame

\* processMail(mail) returns or throws: the loop goes on.
RunnerProcessed(b) ==
  /\ container[b] = "running"
  /\ runner[b].pc = "process"
  /\ runner' = [runner EXCEPT ![b] =
       Advance([@ EXCEPT !.done = Append(@, runner[b].mail.id), !.mail = NoMail])]
  /\ UNCHANGED fs
  /\ RunnerFrame

\* The agent's Write tool leaves a file in /workspace.
WorkFile == [name |-> [ts |-> 0, id |-> 0, ext |-> "txt"], raw |-> Garbage]

AgentWriteWorkspace(b) ==
  /\ container[b] = "running"
  /\ fs[BeeDir("workspace", b)] = {}
  /\ fs' = [fs EXCEPT ![BeeDir("workspace", b)] = PutFile(@, WorkFile)]
  /\ UNCHANGED <<up, connections, swarmDisk, cfgWrites, beeDirs, humanInbox,
                 humanOutbox, humanDisk, watchers, seen, handlers, requests,
                 events, console, now, usedIds, written, interrupted, used>>
  /\ UNCHANGED lifecycle
  /\ UNCHANGED supervisor
  /\ UNCHANGED runner
  /\ UNCHANGED transcript
  /\ UNCHANGED resolve

\* The container stops running without a stop request to the orchestrator:
\* the runner's process exits, or the container is stopped from outside. The
\* orchestrator is not told.
ContainerExit(b) ==
  /\ container[b] = "running"
  /\ used.exit < MaxExit
  /\ used' = [used EXCEPT !.exit = @ + 1]
  /\ container' = [container EXCEPT ![b] = "exited"]
  /\ UNCHANGED <<up, connections, swarmDisk, cfgWrites, beeDirs, fs, humanInbox,
                 humanOutbox, humanDisk, watchers, seen, handlers, requests,
                 events, console, now, usedIds, written, interrupted, bees,
                 beesDisk, live, starts, lastOp>>
  /\ UNCHANGED supervisor
  /\ UNCHANGED runner
  /\ UNCHANGED transcript
  /\ UNCHANGED resolve

(* ------------------------------ GET requests --------------------------- *)
\* A GET request: what it has read so far and what it answered. conns, bees,
\* ran, files, human and at are history: the registry the reply was computed
\* from, whether the bee's container ran when its state was looked up, the
\* names readdir returned, the arrays the human numbers were taken from, and
\* the directories and arrays at the moment of the answer.
NoGet == [op |-> "", bee |-> "", pc |-> "", reply |-> NoHierarchy, conns |-> <<>>,
          bees |-> <<>>, todo |-> <<>>, counts |-> {}, ran |-> {}, files |-> {},
          human |-> NoSnap, at |-> <<>>, list |-> {}]

\* GET /api/bees/:id/hierarchy: computed from the configuration in memory and
\* answered without an await.
GetHierarchy(beeId) ==
  /\ up
  /\ used.get < MaxGets
  /\ used' = [used EXCEPT !.get = @ + 1]
  /\ gets' = gets \cup {[NoGet EXCEPT !.op = "hierarchy", !.bee = beeId,
                                      !.pc = "done",
                                      !.reply = hierarchyReply(connections, bees, beeId),
                                      !.conns = connections, !.bees = bees]}
  /\ UNCHANGED <<up, connections, swarmDisk, cfgWrites, beeDirs, fs, humanInbox,
                 humanOutbox, humanDisk, watchers, seen, handlers, requests,
                 events, console, now, usedIds, written, interrupted>>
  /\ UNCHANGED lifecycle
  /\ UNCHANGED <<hierarchy, created, beeStates>>
  /\ UNCHANGED runner
  /\ UNCHANGED transcript
  /\ UNCHANGED resolve

\* Array.from(beeStates.values()): one <<id, state>> entry per key of the map.
getBeeStates(states) == {<<b, states[b]>> : b \in {x \in Bees : states[x] # "unset"}}

\* refreshBeeStates: sets the entry of every bee of the configuration from its
\* container's state; the entries of other ids are left as they are.
refreshBeeStates(states, registry) ==
  [b \in Bees |-> IF b \in Range(registry) THEN getBeeStatus(container[b])
                                           ELSE states[b]]

\* GET /api/bees: refreshes the map of bee states and answers with its values.
ListBees ==
  /\ up
  /\ used.get < MaxGets
  /\ used' = [used EXCEPT !.get = @ + 1]
  /\ beeStates' = refreshBeeStates(beeStates, bees)
  /\ gets' = gets \cup {[NoGet EXCEPT !.op = "bees", !.pc = "done", !.bees = bees,
                                      !.list = getBeeStates(beeStates')]}
  /\ UNCHANGED <<up, connections, swarmDisk, cfgWrites, beeDirs, fs, humanInbox,
                 humanOutbox, humanDisk, watchers, seen, handlers, requests,
                 events, console, now, usedIds, written, interrupted>>
  /\ UNCHANGED lifecycle
  /\ UNCHANGED <<hierarchy, created>>
  /\ UNCHANGED runner
  /\ UNCHANGED transcript
  /\ UNCHANGED resolve

(* --------------------------- TranscriptWatcher ------------------------- *)
\* A line of transcript.jsonl: the JSON text of an entry, or a text that makes
\* JSON.parse throw.
EntryLine(n) == [text |-> "json", obj |-> n]
BadLine == [text |-> "garbage", obj |-> 0]

\* content.length. The runner appends whole lines, so every length the watcher
\* compares or slices at is the end of a line: the model counts lines.
ContentLength(content) == Len(content)

\* content.slice(lastSize)
SliceFrom(content, size) == SubSeq(content, size + 1, Len(content))

\* trim, split('\n'), filter, map(JSON.parse or null), filter(Boolean): the
\* entries of the lines that parse, in the order of the lines.
ParseLines(content) ==
  LET Parses(l) == ~ParseThrows(l)
      kept == SelectSeq(content, Parses)
  IN [i \in 1..Len(kept) |-> Parse(kept[i])]

TranscriptFrame ==
  /\ UNCHANGED <<up, connections, swarmDisk, cfgWrites, beeDirs, fs, humanInbox,
                 humanOutbox, humanDisk, watchers, seen, handlers, requests,
                 events, console, now, usedIds, written, interrupted, used>>
  /\ UNCHANGED lifecycle
  /\ UNCHANGED supervisor
  /\ UNCHANGED runner
  /\ UNCHANGED resolve

BeginRead(kind) ==
  [transcript EXCEPT
     !.reads = @ \cup {[kind |-> kind, n |-> transcript.issued + 1,
                         pc |-> "reading", content |-> <<>>]},
     !.issued = @ + 1]

\* The runner appends a line to the transcript; a watcher that is watching
\* will be told.
AppendLine(line) ==
  /\ Len(transcript.file) < MaxLines
  /\ transcript' = [transcript EXCEPT
       !.file = Append(@, line),
       !.event = transcript.watching,
       !.early = @ \/ \E r \in transcript.reads : r.kind = "start"]
  /\ TranscriptFrame

\* startWatching, up to the readFile of its loadTranscript.
StartWatching ==
  /\ ~transcript.watching
  /\ \A r \in transcript.reads : r.kind # "start"
  /\ transcript' = BeginRead("start")
  /\ TranscriptFrame

\* getAll, up to the readFile of its loadTranscript.
GetAll ==
  /\ transcript.getAlls < MaxGetAll
  /\ transcript' = [BeginRead("load") EXCEPT !.getAlls = @ + 1]
  /\ TranscriptFrame

\* chokidar delivers 'add' or 'change': checkForNewEntries, up to its readFile.
TranscriptEvent ==
  /\ transcript.watching
  /\ transcript.event
  /\ transcript' = [BeginRead("check") EXCEPT !.event = FALSE]
  /\ TranscriptFrame

\* fs.readFile has the content of the file; the caller is resumed later.
ReadFileDone(r) ==
  /\ r.pc = "reading"
  /\ transcript' = [transcript EXCEPT
       !.reads = (@ \ {r}) \cup {[r EXCEPT !.pc = "read",
                                             !.content = transcript.file]}]
  /\ TranscriptFrame

\* loadTranscript after its readFile: lastSize and entries are replaced (a
\* file that does not exist gives the same as an empty one). For
\* startWatching the watcher is created next, which reports a file that
\* exists with 'add'.
loadTranscript(r) ==
  /\ r.pc = "read"
  /\ r.kind \in {"start", "load"}
  /\ transcript' = [transcript EXCEPT
       !.reads = @ \ {r},
       !.lastSize = ContentLength(r.content),
       !.entries = ParseLines(r.content),
       !.watching = @ \/ r.kind = "start",
       !.event = IF r.kind = "start" THEN transcript.file # <<>> ELSE @,
       !.base = IF r.kind = "start" THEN Len(r.content) ELSE @]
  /\ TranscriptFrame

\* checkForNewEntries after its readFile: nothing for a content no longer than
\* lastSize; otherwise the entries of the content beyond lastSize are pushed
\* and emitted one by one.
checkForNewEntries(r) ==
  /\ r.pc = "read"
  /\ r.kind = "check"
  /\ LET newEntries == ParseLines(SliceFrom(r.content, transcript.lastSize))
     IN transcript' =
          IF ContentLength(r.content) <= transcript.lastSize
          THEN [transcript EXCEPT !.reads = @ \ {r}]
          ELSE [transcript EXCEPT !.reads = @ \ {r},
                                  !.lastSize = ContentLength(r.content),
                                  !.entries = @ \o newEntries,
                                  !.emitted = @ \o newEntries]
  /\ TranscriptFrame

(* ----------------------------- SkillsRegistry -------------------------- *)
\* A skill reference: "id@version", or "id" alone (version "").
Ref(id, version) == [id |-> id, version |-> version]

SkillIds == {"a", "b", "c"}

\* A registry entry with one version, "1", which is the latest, and its
\* manifest's dependencies; and an id the index does not hold.
Skill(deps) == [present |-> TRUE, version |-> "1", dependencies |-> deps]
NoSkill == [present |-> FALSE, version |-> "", dependencies |-> <<>>]

\* getSkillManifest(id, version): null for an id the index does not hold and
\* for a version the entry does not list; the latest version when none is given.
getSkillManifest(registry, id, version) ==
  IF id \notin SkillIds \/ ~registry[id].present THEN NoSkill
  ELSE LET resolvedVersion == IF version = "" THEN registry[id].version ELSE version
       IN IF resolvedVersion # registry[id].version THEN NoSkill
          ELSE registry[id]

\* Set.add: insertion order, no value twice.
SetAdd(seq, x) == IF x \in Range(seq) THEN seq ELSE Append(seq, x)

\* The dependencies pushed onto toResolve: those the set resolved does not hold.
PushDeps(toResolve, deps, resolved) ==
  LET NotResolved(d) == d \notin Range(resolved)
  IN toResolve \o SelectSeq(deps, NotResolved)

ResolveFrame ==
  /\ UNCHANGED <<up, connections, swarmDisk, cfgWrites, beeDirs, fs, humanInbox,
                 humanOutbox, humanDisk, watchers, seen, handlers, requests,
                 events, console, now, usedIds, written, interrupted, used>>
  /\ UNCHANGED lifecycle
  /\ UNCHANGED supervisor
  /\ UNCHANGED runner
  /\ UNCHANGED transcript

\* resolveDependencies(skillIds) is called: resolved is empty and toResolve a
\* copy of the argument.
ResolveCall(registry, skillIds) ==
  /\ resolve.pc = "idle"
  /\ resolve' = [pc |-> "loop", registry |-> registry, skillIds |-> skillIds,
                 toResolve |-> skillIds, resolved |-> <<>>]
  /\ ResolveFrame

\* One pass of the while loop (it awaits getSkillManifest once); with toResolve
\* empty the call returns Array.from(resolved).
resolveDependencies ==
  /\ resolve.pc = "loop"
  /\ IF resolve.toResolve = <<>>
     THEN resolve' = [resolve EXCEPT !.pc = "returned"]
     ELSE LET n == Len(resolve.toResolve)
              skillRef == resolve.toResolve[n]
              rest == SubSeq(resolve.toResolve, 1, n - 1)
              manifest == getSkillManifest(resolve.registry, skillRef.id,
                                           skillRef.version)
              resolved == SetAdd(resolve.resolved,
                                 Ref(skillRef.id, manifest.version))
          IN IF skillRef \in Range(resolve.resolved)
             THEN resolve' = [resolve EXCEPT !.toResolve = rest]
             ELSE IF ~manifest.present
             THEN resolve' = [resolve EXCEPT !.pc = "thrown", !.toResolve = rest]
             ELSE resolve' = [resolve EXCEPT
                    !.resolved = resolved,
                    !.toResolve = PushDeps(rest, manifest.dependencies, resolved)]
  /\ ResolveFrame

\* The names fs.readdir returns for a directory of a bee; nothing for an id
\* the model keeps no directories for.
Readdir(kind, b) == IF b \in Bees THEN {f.name : f \in fs[BeeDir(kind, b)]} ELSE {}

\* files.length, without the filter.
CountJson_All(names) == Cardinality(names)

\* files.filter(f => f.endsWith('.json')).length
CountJson(names) == Cardinality({n \in names : n.ext = "json"})

\* res.json(counts), with the state of what was counted at that moment.
CountsAnswer(g) ==
  [g EXCEPT !.pc = "done",
            !.at = [fs |-> fs, inbox |-> humanInbox, outbox |-> humanOutbox]]

\* GET /api/mail/counts arrives: the human numbers are the lengths of the two
\* arrays; then the bees of the configuration are gone through one by one,
\* and with none the answer is sent at once.
CountsRequest ==
  /\ up
  /\ used.get < MaxGets
  /\ used' = [used EXCEPT !.get = @ + 1]
  /\ LET g == [NoGet EXCEPT
                 !.op = "counts", !.pc = "inbox", !.todo = bees, !.bees = bees,
                 !.human = [inbox |-> humanInbox, outbox |-> humanOutbox],
                 !.counts = {[id |-> "human", inbox |-> Len(humanInbox),
                              outbox |-> Len(humanOutbox), processing |-> FALSE]}]
     IN gets' = gets \cup {IF bees = <<>> THEN CountsAnswer(g) ELSE g}
  /\ UNCHANGED <<up, connections, swarmDisk, cfgWrites, beeDirs, fs, humanInbox,
                 humanOutbox, humanDisk, watchers, seen, handlers, requests,
                 events, console, now, usedIds, written, interrupted>>
  /\ UNCHANGED lifecycle
  /\ UNCHANGED <<hierarchy, created, beeStates>>
  /\ UNCHANGED runner
  /\ UNCHANGED transcript
  /\ UNCHANGED resolve

\* fs.mkdir(inboxPath) and fs.readdir(inboxPath) of the bee at hand end.
CountsInbox(g) ==
  /\ g.op = "counts"
  /\ g.pc = "inbox"
  /\ LET b == Head(g.todo)
     IN /\ beeDirs' = beeDirs \cup ({b} \cap Bees)
        /\ gets' = Replace(gets, g,
              [g EXCEPT !.pc = "outbox",
                        !.files = @ \cup {<<"inbox", b, Readdir("inbox", b)>>}])
  /\ UNCHANGED <<up, connections, swarmDisk, cfgWrites, fs, humanInbox,
                 humanOutbox, humanDisk, watchers, seen, handlers, requests,
                 events, console, now, usedIds, written, interrupted, used>>
  /\ UNCHANGED lifecycle
  /\ UNCHANGED <<hierarchy, created, beeStates>>
  /\ UNCHANGED runner
  /\ UNCHANGED transcript
  /\ UNCHANGED resolve

\* fs.mkdir(outboxPath) and fs.readdir(outboxPath) end; the bee's entry is
\* computed, with processing from the state the map beeStates holds, and the
\* loop goes on to the next bee or the answer is sent.
CountsOutbox(g) ==
  /\ g.op = "counts"
  /\ g.pc = "outbox"
  /\ LET b == Head(g.todo)
         inboxFiles == (CHOOSE t \in g.files : t[1] = "inbox" /\ t[2] = b)[3]
         outboxFiles == Readdir("outbox", b)
         inboxCount == CountJson(inboxFiles)
         outboxCount == CountJson(outboxFiles)
         isProcessing == b \in Bees /\ beeStates[b] = "running" /\ inboxCount > 0
         entry == [id |-> b, inbox |-> inboxCount, outbox |-> outboxCount,
                   processing |-> isProcessing]
         next == [g EXCEPT
                   !.pc = "inbox", !.todo = Tail(g.todo),
                   !.counts = {c \in @ : c.id # b} \cup {entry},
                   !.files = @ \cup {<<"outbox", b, outboxFiles>>},
                   !.ran = @ \cup {<<b, b \in Bees /\ container[b] = "running">>}]
     IN gets' = Replace(gets, g,
                  IF Tail(g.todo) = <<>> THEN CountsAnswer(next) ELSE next)
  /\ UNCHANGED <<up, connections, swarmDisk, cfgWrites, beeDirs, fs, humanInbox,
                 humanOutbox, humanDisk, watchers, seen, handlers, requests,
                 events, console, now, usedIds, written, interrupted, used>>
  /\ UNCHANGED lifecycle
  /\ UNCHANGED <<hierarchy, created, beeStates>>
  /\ UNCHANGED runner
  /\ UNCHANGED transcript
  /\ UNCHANGED resolve

\* The map inboxWatchers, which watchBeeInbox fills. Nothing calls
\* watchBeeInbox (main and the start route call watchBeeOutbox only), so no
\* bee ever has an inbox watcher.
inboxWatchers == [b \in Bees |-> 0]

\* 'add' or 'unlink' of an inbox watcher: broadcastMailCounts() sends
\* mail:counts. It is no step of any behaviour below: without an inbox
\* watcher it cannot happen.
InboxChange(b) ==
  /\ up
  /\ inboxWatchers[b] > 0
  /\ events' = events \cup {<<"mail:counts", NoMail>>}
  /\ UNCHANGED <<up, connections, swarmDisk, cfgWrites, beeDirs, fs, humanInbox,
                 humanOutbox, humanDisk, watchers, seen, handlers, requests,
                 console, now, usedIds, written, interrupted, used>>
  /\ UNCHANGED lifecycle
  /\ UNCHANGED supervisor
  /\ UNCHANGED runner
  /\ UNCHANGED transcript
  /\ UNCHANGED resolve

(* ------------------------------ behaviours ----------------------------- *)
\* The pairs the connection requests of the model name.
ConnInputs == {<<"human", "b1">>, <<"human", "b2">>}

\* The outbox plane: the agents, the outbox watchers and the router.
NextOutbox ==
  \/ Tick
  \/ \E b \in Bees : \E to \in Nodes \ {b}, id \in Ids : AgentSendMail(b, to, id)
  \/ \E b \in Bees : \E to \in Bees \ {b}, id \in Ids : AgentWriteRaw(b, to, id)
  \/ Main
  \/ Crash
  \/ \E b \in Bees : OutboxAdd(b)
  \/ \E h \in handlers : HandlerRead(h)
  \/ \E h \in handlers : HandlerUnlink(h)
  \/ \E h \in handlers, ok \in BOOLEAN : HandlerSaveDone(h, ok)
  \/ \E h \in handlers : HandlerMkdirDone(h)
  \/ \E h \in handlers, ok \in BOOLEAN : HandlerWriteDone(h, ok)

Spec == Init /\ [][NextOutbox]_vars

\* The gateway plane: mail.send, the connection requests and the router.
NextGateway ==
  \/ Main
  \/ \E to \in Bees \cup {""}, att \in {"none", "found", "missing"}, id \in Ids :
       MailSend(to, att, id)
  \/ \E r \in requests, id \in Ids : SendAttachDone(r, id)
  \/ \E r \in requests, ok \in BOOLEAN : SendSaveDone(r, ok)
  \/ \E r \in requests : SendMkdirDone(r)
  \/ \E r \in requests, ok \in BOOLEAN : SendWriteDone(r, ok)
  \/ \E p \in ConnInputs, bi \in BOOLEAN : AddConnection(p[1], p[2], bi)
  \/ \E p \in ConnInputs, bi \in BOOLEAN : RemoveConnection(p[1], p[2], bi)
  \/ \E snapshot \in cfgWrites : SaveConfigDone(snapshot)

SpecGateway == Init /\ [][NextGateway]_vars

\* The bee lifecycle: start and stop requests, the watchers they create, the
\* agents and the router.
NextLifecycle ==
  \/ Main
  \/ \E b \in Started : written = {} /\ AgentSendMail(b, "human", FreshId)
  \/ \E b \in Bees : StartRequest(b)
  \/ \E s \in starts : StartBeeDone(s)
  \/ \E s \in starts : WatchMkdirDone(s)
  \/ \E s \in starts : WatchCloseDone(s)
  \/ \E b \in Bees : StopBee(b)
  \/ \E b \in Bees : OutboxAdd(b)
  \/ \E h \in handlers : HandlerRead(h)
  \/ \E h \in handlers : HandlerUnlink(h)
  \/ \E h \in handlers : HandlerSaveDone(h, TRUE)

SpecLifecycle == Init /\ [][NextLifecycle]_vars

\* The pairs the connection requests of the registry plane name: registered
\* bees, a self-edge, an id no bee has.
RegPairs == {<<"human", "b1">>, <<"b1", "b2">>, <<"b1", "b1">>, <<"b1", "b3">>}

\* The request bodies of PUT /api/swarm: a well-formed configuration, one with
\* an edge stored twice, one that names a bee it does not list, one with a bee
\* id listed twice, one whose ids contain "->".
ConfigInputs ==
  { [bees |-> <<"b1", "b2">>,
     connections |-> <<Conn("b1", "b2"), Conn("b2", "b1"), Conn("human", "b1")>>],
    [bees |-> <<"b1", "b2">>,
     connections |-> <<Conn("b1", "b2"), Conn("b1", "b2")>>],
    [bees |-> <<"b1">>, connections |-> <<Conn("b1", "b2")>>],
    [bees |-> <<"b1", "b1">>, connections |-> <<>>],
    [bees |-> <<"b1", "b2->b3", "b1->b2", "b3">>,
     connections |-> <<Conn("b1", "b2->b3"), Conn("b1->b2", "b3")>>] }

\* The registry plane: the requests that change the configuration in memory
\* (the writes of swarm.json they start stay in flight).
NextRegistry ==
  \/ Main
  \/ \E config \in ConfigInputs : SetConfig(config)
  \/ \E id \in {"b1", "b3"} : AddBee(id)
  \/ \E id \in {"b2", "b3"} : RemoveBee(id)
  \/ \E p \in RegPairs, bi \in BOOLEAN : AddConnection(p[1], p[2], bi)
  \/ \E p \in RegPairs, bi \in BOOLEAN : RemoveConnection(p[1], p[2], bi)
  \/ \E p \in RegPairs, bi \in BOOLEAN : UpdateConnection(p[1], p[2], bi)

SpecRegistry == Init /\ [][NextRegistry]_vars

\* The registry and its listing: the requests that change the list of bees,
\* and GET /api/bees.
NextList ==
  \/ Main
  \/ \E config \in ConfigInputs : SetConfig(config)
  \/ \E id \in Bees : AddBee(id)
  \/ \E id \in Bees : RemoveBee(id)
  \/ ListBees

SpecList == Init /\ [][NextList]_vars

\* The transcript: the runner appending lines, and the calls and callbacks of
\* the TranscriptWatcher.
NextTranscript ==
  \/ \E line \in {EntryLine(Len(transcript.file) + 1), BadLine} : AppendLine(line)
  \/ StartWatching
  \/ GetAll
  \/ TranscriptEvent
  \/ \E r \in transcript.reads : ReadFileDone(r)
  \/ \E r \in transcript.reads : loadTranscript(r)
  \/ \E r \in transcript.reads : checkForNewEntries(r)

SpecTranscript == Init /\ [][NextTranscript]_vars

\* The contents of the skills registry: dependencies with versions in a
\* diamond and in a cycle, dependencies without versions in a cycle, in a
\* chain and in a diamond, and a dependency on a skill that is not there.
RegistryInputs ==
  { [a |-> Skill(<<Ref("b", "1"), Ref("c", "1")>>), b |-> Skill(<<Ref("c", "1")>>),
     c |-> Skill(<<>>)],
    [a |-> Skill(<<Ref("b", "1")>>), b |-> Skill(<<Ref("a", "1")>>), c |-> NoSkill],
    [a |-> Skill(<<Ref("b", "")>>), b |-> Skill(<<Ref("a", "")>>), c |-> NoSkill],
    [a |-> Skill(<<Ref("b", "")>>), b |-> Skill(<<>>), c |-> NoSkill],
    [a |-> Skill(<<Ref("b", ""), Ref("c", "")>>), b |-> Skill(<<Ref("c", "")>>),
     c |-> Skill(<<>>)],
    [a |-> Skill(<<Ref("c", "1")>>), b |-> Skill(<<>>), c |-> NoSkill] }

\* The arguments of resolveDependencies.
SkillIdInputs ==
  { <<Ref("a", "")>>, <<Ref("a", "1")>>, <<Ref("a", ""), Ref("b", "")>>,
    <<Ref("b", ""), Ref("a", "1")>>, <<Ref("c", "")>> }

NextResolve ==
  \/ \E registry \in RegistryInputs, skillIds \in SkillIdInputs :
       ResolveCall(registry, skillIds)
  \/ resolveDependencies

\* The call is resumed whenever the manifest it awaits has been read.
FairResolve == WF_vars(resolveDependencies)

SpecResolve == Init /\ [][NextResolve]_vars /\ FairResolve

\* Draining an outbox: one agent writing a mail and other files, and its outbox
\* watcher. The event loop runs every callback that can run and the watcher
\* reports every path.
NextDrain ==
  \/ Main
  \/ \E b \in Started : written = {} /\ AgentSendMail(b, "human", FreshId)
  \/ \E b \in Started : \E to \in Bees \ {b} : AgentWriteRaw(b, to, FreshId)
  \/ \E b \in Bees : OutboxAdd(b)
  \/ \E h \in handlers : HandlerRead(h)
  \/ \E h \in handlers : HandlerUnlink(h)
  \/ \E h \in handlers : HandlerSaveDone(h, TRUE)

FairCallbacks ==
  /\ WF_vars(Main)
  /\ WF_vars(\E b \in Bees : OutboxAdd(b))
  /\ WF_vars(\E h \in handlers : HandlerRead(h))
  /\ WF_vars(\E h \in handlers : HandlerUnlink(h))
  /\ WF_vars(\E h \in handlers : HandlerSaveDone(h, TRUE))

\* The process finds the default configuration in swarm.json.
InitDefault == Init /\ swarmDisk = DefaultConnections

SpecDrain == InitDefault /\ [][NextDrain]_vars /\ FairCallbacks

\* Restarting: the process stops and is started again, and start requests
\* replace the watcher of a running process, while one agent writes a mail.
NextRestart ==
  \/ Main
  \/ Crash
  \/ \E b \in Started : written = {} /\ AgentSendMail(b, "human", FreshId)
  \/ \E b \in Started : starts = {} /\ StartRequest(b)
  \/ \E s \in starts : StartBeeDone(s)
  \/ \E s \in starts : WatchMkdirDone(s)
  \/ \E s \in starts : WatchCloseDone(s)
  \/ \E b \in Bees : OutboxAdd(b)
  \/ \E h \in handlers : HandlerRead(h)
  \/ \E h \in handlers : HandlerUnlink(h)
  \/ \E h \in handlers : HandlerSaveDone(h, TRUE)

FairRestart ==
  /\ FairCallbacks
  /\ WF_vars(\E s \in starts : StartBeeDone(s))
  /\ WF_vars(\E s \in starts : WatchMkdirDone(s))
  /\ WF_vars(\E s \in starts : WatchCloseDone(s))

SpecRestart == InitDefault /\ [][NextRestart]_vars /\ FairRestart

\* Persistence: requests that change the configuration, the writes of
\* swarm.json they start ending in any order, and the process restarting.
NextPersist ==
  \/ Main
  \/ Crash
  \/ \E config \in ConfigInputs : SetConfig(config)
  \/ \E p \in ConnInputs, bi \in BOOLEAN : AddConnection(p[1], p[2], bi)
  \/ \E snapshot \in cfgWrites : SaveConfigDone(snapshot)

SpecPersist == Init /\ [][NextPersist]_vars

\* The pairs the connection requests of the supervision plane name.
SupPairs == {<<"human", "b1">>, <<"b1", "b2">>}

\* Supervision: bees added, removed, started and stopped, connections
\* changed, and the hierarchy asked for.
NextSupervisor ==
  \/ Main
  \/ \E id \in Bees : AddBee(id)
  \/ \E id \in Bees : RemoveBee(id)
  \/ \E b \in Bees : StartRequest(b)
  \/ \E s \in starts : StartBeeDone(s)
  \/ \E s \in starts : WatchMkdirDone(s)
  \/ \E s \in starts : WatchCloseDone(s)
  \/ \E b \in Bees : StopBee(b)
  \/ \E p \in SupPairs : AddConnection(p[1], p[2], FALSE)
  \/ \E p \in SupPairs : RemoveConnection(p[1], p[2], FALSE)
  \/ \E b \in Bees : GetHierarchy(b)

SpecSupervisor == Init /\ [][NextSupervisor]_vars

\* The inboxes: mail sent through the gateway to a bee, the bee's container
\* taking it, stopping and being started again, its agent writing files, and
\* the counts asked for.
NextInbox ==
  \/ Main
  \/ MailSend("b1", "none", FreshId)
  \/ \E r \in requests : SendSaveDone(r, TRUE)
  \/ \E r \in requests : SendMkdirDone(r)
  \/ \E r \in requests : SendWriteDone(r, TRUE)
  \/ \E b \in Bees : RunnerTake(b)
  \/ \E b \in Started : AgentWriteWorkspace(b)
  \/ \E b \in Started : \E to \in Bees \ {b} : AgentWriteRaw(b, to, FreshId)
  \/ \E b \in Started : starts = {} /\ StartRequest(b)
  \/ \E s \in starts : StartBeeDone(s)
  \/ \E s \in starts : WatchMkdirDone(s)
  \/ \E s \in starts : WatchCloseDone(s)
  \/ \E b \in Bees : StopBee(b)
  \/ \E b \in Bees : ContainerExit(b)
  \/ CountsRequest
  \/ \E g \in gets : CountsInbox(g)
  \/ \E g \in gets : CountsOutbox(g)

SpecInbox == Init /\ [][NextInbox]_vars

\* Inbox changes: a mail of the human delivered to a bee's inbox and taken by
\* the bee's container. Every request is served to its end and a running
\* container takes the mail it finds. InboxChange is no disjunct: no inbox
\* watcher exists that could cause it.
NextNotify ==
  \/ Tick
  \/ Main
  \/ MailSend("b1", "none", FreshId)
  \/ \E r \in requests : SendSaveDone(r, TRUE)
  \/ \E r \in requests : SendMkdirDone(r)
  \/ \E r \in requests : SendWriteDone(r, TRUE)
  \/ \E b \in Bees : RunnerTake(b)
  \/ \E b \in Started : AgentWriteWorkspace(b)
  \/ \E b \in Bees : StopBee(b)
  \/ \E b \in Bees : ContainerExit(b)

FairNotify ==
  /\ WF_vars(Main)
  /\ WF_vars(\E r \in requests : SendSaveDone(r, TRUE))
  /\ WF_vars(\E r \in requests : SendMkdirDone(r))
  /\ WF_vars(\E r \in requests : SendWriteDone(r, TRUE))
  /\ WF_vars(\E b \in Bees : RunnerTake(b))

\* The way of a mail from an outbox to a bee's inbox: the agent of a started
\* bee writing mail for the other bee, the outbox watcher and the router.
NextRoundTrip ==
  \/ Tick
  \/ Main
  \/ \E b \in Started : \E to \in Bees \ {b} : AgentSendMail(b, to, FreshId)
  \/ \E b \in Started : \E to \in Bees \ {b} : AgentWriteMail(b, to, FreshId)
  \/ \E b \in Bees : OutboxAdd(b)
  \/ \E h \in handlers : HandlerRead(h)
  \/ \E h \in handlers : HandlerUnlink(h)
  \/ \E h \in handlers : HandlerMkdirDone(h)
  \/ \E h \in handlers, ok \in BOOLEAN : HandlerWriteDone(h, ok)

SpecRoundTrip == Init /\ [][NextRoundTrip]_vars

\* The runner of b1 and the gateway: a mail waits in the inbox when the
\* container's runner starts, and the human sends another. Every request is
\* served to its end and the runner keeps polling.
NextRunner ==
  \/ Tick
  \/ Main
  \/ MailSend("b1", "none", FreshId)
  \/ \E r \in requests : SendSaveDone(r, TRUE)
  \/ \E r \in requests : SendMkdirDone(r)
  \/ \E r \in requests : SendWriteBegin(r)
  \/ \E r \in requests : SendWriteDone(r, TRUE)
  \/ \E b \in Bees : RunnerBoot(b)
  \/ \E b \in Bees : RunnerPoll(b)
  \/ \E b \in Bees : RunnerRead(b)
  \/ \E b \in Bees : RunnerProcessed(b)

FairRunner ==
  /\ WF_vars(Main)
  /\ WF_vars(\E r \in requests : SendSaveDone(r, TRUE))
  /\ WF_vars(\E r \in requests : SendMkdirDone(r))
  /\ WF_vars(\E r \in requests : SendWriteDone(r, TRUE))
  /\ WF_vars(\E b \in Bees : RunnerBoot(b))
  /\ WF_vars(\E b \in Bees : RunnerPoll(b))
  /\ WF_vars(\E b \in Bees : RunnerRead(b))
  /\ WF_vars(\E b \in Bees : RunnerProcessed(b))

SpecRunner == InitBacklog /\ [][NextRunner]_vars /\ FairRunner

SpecNotify == Init /\ [][NextNotify]_vars /\ FairNotify

(* ------------------------------ the claims ------------------------------ *)
\* The connection graph has the directed edge a -> b.
HasEdge(conns, a, b) == \E c \in Range(conns) : c.from = a /\ c.to = b

\* The mails a directory's files hold.
MailsIn(dir) == {Parse(f.raw) : f \in {g \in dir : ~ParseThrows(g.raw)}}

\* Every mail at rest: in a directory of the data root or in the human inbox.
MailsAtRest == UNION {MailsIn(fs[d]) : d \in Dirs} \cup Range(humanInbox)

\* b is the bounce the router owes for m.
IsBounceFor(b, m) ==
  /\ b.from = "system" /\ b.to = m.from
  /\ b.type = "bounce" /\ b.inReplyTo = m.id

BounceProduced(m) ==
  \E b \in MailsAtRest \cup {h.mail : h \in handlers} : IsBounceFor(b, m)

\* m, or a copy of it, is in the inbox of the node it is addressed to.
InRecipientInbox(m) ==
  IF m.to = "human" THEN \E x \in Range(humanInbox) : x.id = m.id
  ELSE m.to \in Bees /\ \E x \in MailsIn(fs[BeeDir("inbox", m.to)]) : x.id = m.id

\* In this step the callback h hands its mail to the router
\* (routeOutboundMail is called).
HandsToRouter(h) ==
  /\ h \in handlers /\ h.pc = "unlink"
  /\ h \notin handlers'
  /\ up'

\* C1: a mail handed to the router with no edge from -> to in the graph at that
\* moment gets no file in the recipient's inbox, and a bounce for it (from
\* "system", to the sender, type bounce, inReplyTo the mail's id) is produced.
C1_TopologyRespect ==
  [][\A h \in handlers :
       (HandsToRouter(h) /\ ~HasEdge(connections, h.mail.from, h.mail.to))
         => (~InRecipientInbox(h.mail)' /\ BounceProduced(h.mail)')]_vars

\* C2: a mail addressed to human, taken from a bee's outbox, reaches the human
\* inbox only if the graph has the edge from that bee to human at that moment.
C2_HumanNeedsEdge ==
  [][\A h \in handlers :
       (HandsToRouter(h) /\ h.mail.to = "human" /\ InRecipientInbox(h.mail)')
         => HasEdge(connections, h.mail.from, "human")]_vars

\* The request r arrives in this step.
Arrives(r) ==
  /\ r \in requests'
  /\ r.rid \notin {q.rid : q \in requests}

\* C3: mail.send(to = X), with no edge human -> X in the graph, is answered with
\* the no-route error at once, creates no mail and writes no file; and a request
\* answered with the no-route error has no file in X's inbox.
C3_SendNeedsEdge ==
  /\ [][\A r \in requests' :
          (Arrives(r) /\ r.to \in Bees /\ ~HasEdge(connections, "human", r.to))
            => /\ r.pc = "done" /\ r.status = 400 /\ r.error = "No connection"
               /\ r.mail = NoMail
               /\ fs' = fs]_vars
  /\ [](\A r \in requests :
          (r.pc = "done" /\ r.error = "No connection" /\ r.to \in Bees)
            => \A m \in MailsIn(fs[BeeDir("inbox", r.to)]) : m.id # r.mail.id)

\* A state where mail.send to a bee the human has no edge to was refused.
C3_Witness ==
  \E r \in requests :
    /\ r.to \in Bees /\ up /\ ~HasEdge(connections, "human", r.to)
    /\ r.pc = "done" /\ r.status = 400 /\ r.error = "No connection"

\* The files of directory dir that hold the mail with this id.
FilesOf(dir, id) == {f \in dir : ~ParseThrows(f.raw) /\ Parse(f.raw).id = id}

\* C4: the mails one bee wrote to its outbox for one recipient, at ascending
\* timestamps, lie in the recipient's inbox in that order of file names.
C4_FifoPerSource ==
  \A w1, w2 \in written :
    (/\ w1.mail.from = w2.mail.from
     /\ w1.mail.to = w2.mail.to /\ w1.mail.to \in Bees
     /\ w1.name.ts < w2.name.ts)
      => \A f1 \in FilesOf(fs[BeeDir("inbox", w1.mail.to)], w1.mail.id),
            f2 \in FilesOf(fs[BeeDir("inbox", w1.mail.to)], w2.mail.id) :
           NameLess(f1.name, f2.name)

\* The places of the data root that hold the mail with this id, among the four
\* of the claim.
PlacesOf(id) ==
  {d \in ({"inbox", "outbox"} \X Bees) \cup {Inflight} : FilesOf(fs[d], id) # {}}
    \cup {d \in {<<"inbox", "human">>} : \E x \in Range(humanInbox) : x.id = id}

\* C5: a mail is never in two of the four places, and a mail whose routing is
\* in progress is in one of them.
C5_ExactlyOnePlace ==
  /\ \A w \in written : Cardinality(PlacesOf(w.mail.id)) <= 1
  /\ \A h \in handlers :
       h.pc \in {"unlink", "save", "mkdir", "write"}
         => Cardinality(PlacesOf(h.mail.id)) = 1

\* The watcher has taken w's file out of the outbox and no callback works on it.
TakenAndDone(w) ==
  /\ ~HasFile(fs[BeeDir("outbox", w.mail.from)], w.name)
  /\ ~\E h \in handlers : h.bee = w.mail.from /\ h.name = w.name

\* C6: a mail the watcher took out of an outbox, once no callback works on it,
\* is in the recipient's inbox (a bee's or the human's), or a bounce for it is
\* in the sender's inbox, or it is in the dead-letter directory.
C6_NeverDropped ==
  \A w \in written :
    TakenAndDone(w)
      => \/ InRecipientInbox(w.mail)
         \/ \E b \in MailsIn(fs[BeeDir("inbox", w.mail.from)]) : IsBounceFor(b, w.mail)
         \/ \E d \in MailsIn(fs[Deadletter]) : d.id = w.mail.id \/ IsBounceFor(d, w.mail)

\* C7: routeMail never throws to its caller: the catch around it in
\* routeOutboundMail (which prints "Mail routing failed") never runs, and
\* mail.send never answers 500 with routeMail's message.
C7_RouteNeverRaises ==
  /\ \A line \in console : line[1] # "Mail routing failed"
  /\ \A r \in requests : ~(r.status = 500 /\ r.error = "No connection")

\* C8: a bounce whose delivery failed is in the dead-letter directory, and no
\* mail has more than one bounce.
C8_BounceToDeadletter ==
  /\ \A e \in events :
       (e[1] = "mail:failed" /\ e[2].type = "bounce")
         => \E d \in MailsIn(fs[Deadletter]) : d.id = e[2].id
  /\ \A w \in written :
       Cardinality({b \in MailsAtRest : IsBounceFor(b, w.mail)}) <= 1

\* The process runs, every outbox file has been reported to its watcher, and no
\* callback is in flight.
Quiescent ==
  /\ up
  /\ handlers = {}
  /\ \A b \in Bees : \A w \in LiveWatchers(b) :
       \A f \in fs[BeeDir("outbox", b)] : f.name \in SeenBy(b, w)

\* C9: a mail whose routing a process stop cut short (its outbox file removed,
\* its inbox file not yet written) is, once the restarted process has nothing left
\* to do, in the recipient's inbox exactly once.
C9_RecoveredAfterRestart ==
  \A m \in interrupted :
    Quiescent => Cardinality(FilesOf(fs[BeeDir("inbox", m.to)], m.id)) = 1

\* C10: when the watcher's callback reads an outbox file that does not parse,
\* the file leaves the outbox for the bee's poison directory and an event about
\* it is broadcast.
C10_PoisonMovedAside ==
  [][\A h \in handlers :
       (/\ h.pc = "read" /\ h \notin handlers' /\ up'
        /\ HasFile(fs[BeeDir("outbox", h.bee)], h.name)
        /\ ParseThrows(TheFile(fs[BeeDir("outbox", h.bee)], h.name).raw))
         => /\ ~HasFile(fs'[BeeDir("outbox", h.bee)], h.name)
            /\ HasFile(fs'[BeeDir("poison", h.bee)], h.name)
            /\ events' # events]_vars

\* C13: a bee has at most one outbox watcher that is not closed, and no outbox
\* file is parsed and handed on by the callbacks of two watchers.
C13_SingleWatcher ==
  /\ \A b \in Bees : Cardinality(LiveWatchers(b)) <= 1
  /\ \A h1, h2 \in handlers :
       (h1.bee = h2.bee /\ h1.name = h2.name /\ h1.pc # "read" /\ h2.pc # "read")
         => h1.w = h2.w

\* C14: a bee whose container a stop request has stopped (and no start request
\* has started again) has no outbox watcher that is not closed.
C14_StopClosesWatcher ==
  \A b \in Bees : container[b] = "exited" => LiveWatchers(b) = {}

\* Bee b's outbox holds a .json file that parses.
WellFormedIn(b) ==
  \E f \in fs[BeeDir("outbox", b)] : f.name.ext = "json" /\ ~ParseThrows(f.raw)

\* Bee b's outbox holds a .json file that does not parse.
CorruptIn(b) ==
  \E g \in fs[BeeDir("outbox", b)] : g.name.ext = "json" /\ ParseThrows(g.raw)

\* The callback took the file out of the outbox: it has parsed it, unlinked it
\* and called routeOutboundMail.
TakenFrom(b, n) == ~HasFile(fs[BeeDir("outbox", b)], n)

\* C11: when an outbox holds a corrupt file and well-formed files, every
\* well-formed file is eventually read, unlinked and handed to the router (the
\* agents write finitely many files, so the outbox is eventually free of them).
C11_CorruptDoesNotBlock ==
  \A b \in Bees : (WellFormedIn(b) /\ CorruptIn(b)) ~> ~WellFormedIn(b)

\* A corrupt file has been read (its error printed) and is still in the outbox,
\* and a mail written through send_mail has left the same outbox.
C11_Witness ==
  \E b \in Bees :
    /\ \E g \in fs[BeeDir("outbox", b)] :
         /\ g.name.ext = "json" /\ ParseThrows(g.raw)
         /\ <<"Error processing outbox file", g.name>> \in console
    /\ \E w \in written :
         /\ w.mail.from = b /\ TakenFrom(b, w.name)
         /\ \E m \in Range(humanInbox) : m.id = w.mail.id

\* C12: the well-formed files an outbox holds while the orchestrator is down or
\* the bee's watcher is closed are eventually read, unlinked and handed to the
\* router, once the process or the watcher is started again.
C12_DrainedAfterStart ==
  \A b \in Bees :
    (WellFormedIn(b) /\ (~up \/ LiveWatchers(b) = {})) ~> ~WellFormedIn(b)

\* A mail written while no watcher was running has reached the human inbox.
C12_Witness ==
  \E w \in written :
    /\ ~w.watched
    /\ TakenFrom(w.mail.from, w.name)
    /\ \E m \in Range(humanInbox) : m.id = w.mail.id

\* The ids a connection of the model can name.
AllIds == Range(IdOrder)

\* The directed edges a connection list holds, and how often it holds one.
Edges(conns) == {<<c.from, c.to>> : c \in Range(conns)}
Count(conns, a, b) ==
  Cardinality({i \in DOMAIN conns : conns[i].from = a /\ conns[i].to = b})

\* C15: after conn.add(a, b[, bidirectional]) a second call with the same
\* arguments leaves the list as it is, and the call stored no directed edge a
\* second time (an edge the list held k > 1 times before is not counted).
C15_AddIdempotent ==
  lastOp.op = "add" =>
    /\ addConnection(connections, lastOp.from, lastOp.to, lastOp.bidirectional)
         = connections
    /\ \A a, b \in AllIds :
         Count(connections, a, b) <= 1 \/
         Count(connections, a, b) <= Count(lastOp.before, a, b)

\* C16: after conn.add(a, b, bidirectional = true) the list holds a -> b and
\* b -> a, and canSendMail answers true in both directions.
C16_BidirectionalStoresBoth ==
  (lastOp.op = "add" /\ lastOp.bidirectional) =>
    /\ <<lastOp.from, lastOp.to>> \in Edges(connections)
    /\ <<lastOp.to, lastOp.from>> \in Edges(connections)
    /\ canSendMail(connections, lastOp.from, lastOp.to)
    /\ canSendMail(connections, lastOp.to, lastOp.from)

\* conn.add(a, b, true), a # b, acted on a list that held neither direction.
C16_Witness ==
  /\ lastOp.op = "add" /\ lastOp.bidirectional /\ lastOp.from # lastOp.to
  /\ <<lastOp.from, lastOp.to>> \notin Edges(lastOp.before)
  /\ <<lastOp.to, lastOp.from>> \notin Edges(lastOp.before)
  /\ Len(connections) = Len(lastOp.before) + 2

\* The entries of a merged list for the unordered pair {a, b}, and for the
\* direction a -> b.
PairEntries(merged, a, b) ==
  {i \in DOMAIN merged : {merged[i].from, merged[i].to} = {a, b}}
DirectedEntries(merged, a, b) ==
  {i \in DOMAIN merged : merged[i].from = a /\ merged[i].to = b}

\* C17: getMergedConnections holds, for a pair with both directions, exactly
\* one entry, flagged bidirectional, from the smaller id to the larger; and for
\* an edge without its reverse exactly one entry, not flagged, in the edge's
\* direction.
C17_MergeExact ==
  up =>
    LET merged == getMergedConnections(connections)
    IN \A a, b \in AllIds :
         /\ (<<a, b>> \in Edges(connections) /\ <<b, a>> \in Edges(connections))
              => /\ Cardinality(PairEntries(merged, a, b)) = 1
                 /\ \A i \in PairEntries(merged, a, b) :
                      /\ merged[i].bidirectional = "true"
                      /\ merged[i].from = (IF StrLess(a, b) THEN a ELSE b)
         /\ (<<a, b>> \in Edges(connections) /\ <<b, a>> \notin Edges(connections))
              => /\ Cardinality(DirectedEntries(merged, a, b)) = 1
                 /\ \A i \in PairEntries(merged, a, b) :
                      /\ merged[i].bidirectional = "false"
                      /\ merged[i].from = a

\* C18: conn.remove(a, b) takes the edge a -> b out of the list, with
\* bidirectional = true also b -> a, and every other element stays, in order.
C18_RemoveFrame ==
  lastOp.op = "remove" =>
    LET gone == {<<lastOp.from, lastOp.to>>} \cup
                (IF lastOp.bidirectional THEN {<<lastOp.to, lastOp.from>>} ELSE {})
    IN /\ Edges(connections) = Edges(lastOp.before) \ gone
       /\ \A a, b \in AllIds :
            <<a, b>> \notin gone =>
              /\ Count(connections, a, b) = Count(lastOp.before, a, b)
              /\ canSendMail(connections, a, b) = canSendMail(lastOp.before, a, b)

\* conn.remove(a, b) without the option acted on a list that held a -> b and
\* b -> a, and b -> a is still there.
C18_Witness ==
  /\ lastOp.op = "remove" /\ ~lastOp.bidirectional /\ lastOp.from # lastOp.to
  /\ <<lastOp.from, lastOp.to>> \in Edges(lastOp.before)
  /\ <<lastOp.to, lastOp.from>> \in Edges(lastOp.before)
  /\ <<lastOp.to, lastOp.from>> \in Edges(connections)
  /\ <<lastOp.from, lastOp.to>> \notin Edges(connections)

\* C19: conn.setBidir(a, b, true) changes the edges of the list by adding
\* b -> a and nothing else; conn.setBidir(a, b, false) by removing b -> a and
\* nothing else.
C19_SetBidirFrame ==
  lastOp.op = "setBidir" =>
    Edges(connections) =
      IF lastOp.bidirectional
      THEN Edges(lastOp.before) \cup {<<lastOp.to, lastOp.from>>}
      ELSE Edges(lastOp.before) \ {<<lastOp.to, lastOp.from>>}

\* C20: the registry of a running orchestrator lists no bee id twice, and every
\* connection joins two different nodes, each a listed bee or "human".
C20_RegistryValid ==
  up =>
    /\ \A i, j \in DOMAIN bees : bees[i] = bees[j] => i = j
    /\ \A c \in Range(connections) :
         /\ c.from \in Range(bees) \cup {"human"}
         /\ c.to \in Range(bees) \cup {"human"}
         /\ c.from # c.to

\* The nodes a connection of the list names, and the ids of a hierarchy list.
NodesOf(conns) == {c.from : c \in Range(conns)} \cup {c.to : c \in Range(conns)}
IdsOf(list) == {e.id : e \in Range(list)}

\* C21: a configuration put with PUT /api/swarm whose request has returned is
\* the configuration the process holds after it has been restarted: the same
\* bees, and the same connections as a set.
C21_PutSurvivesRestart ==
  (up /\ lastOp.op = "put" /\ lastOp.stage = "restarted") =>
    /\ bees = lastOp.cfg.bees
    /\ Range(connections) = Range(lastOp.cfg.connections)

\* C22: when no write of swarm.json is in flight, swarm.json holds the
\* configuration the process holds in memory.
C22_DiskEqualsMemory ==
  (up /\ cfgWrites = {}) => (swarmDisk = connections /\ beesDisk = bees)

\* C23: after DELETE /api/bees/:id has removed a bee, the bee is not in the
\* registry, its data directory is gone and it has no container.
C23_RemoveDestroysContainer ==
  (up /\ lastOp.op = "removeBee" /\ lastOp.from \in Range(lastOp.beesBefore)
      /\ lastOp.from \in Bees) =>
    /\ lastOp.from \notin Range(bees)
    /\ lastOp.from \notin beeDirs
    /\ \A d \in Dirs : d[2] = lastOp.from => fs[d] = {}
    /\ container[lastOp.from] = "none"

\* C24: while the process runs, the hierarchy.json of a registered bee that
\* has a container and no start request in flight lists exactly the nodes
\* with a connection to the bee and the nodes the bee has a connection to.
C24_HierarchyFileCurrent ==
  \A b \in Bees :
    (up /\ b \in Range(bees) /\ container[b] # "none"
        /\ ~(\E s \in starts : s.bee = b)) =>
      /\ IdsOf(hierarchy[b].receivesTasksFrom)
           = {y \in NodesOf(connections) : canSendMail(connections, y, b)}
      /\ IdsOf(hierarchy[b].canDelegateTo)
           = {y \in NodesOf(connections) : canSendMail(connections, b, y)}

\* C25: the reply of GET /api/bees/:id/hierarchy lists as receivesTasksFrom
\* exactly the nodes that can send to the bee and as canDelegateTo exactly the
\* nodes the bee can send to, and is what startBee writes into hierarchy.json
\* for the same configuration.
C25_HierarchyReply ==
  \A g \in gets :
    g.op = "hierarchy" =>
      /\ IdsOf(g.reply.receivesTasksFrom)
           = {y \in NodesOf(g.conns) : canSendMail(g.conns, y, g.bee)}
      /\ IdsOf(g.reply.canDelegateTo)
           = {y \in NodesOf(g.conns) : canSendMail(g.conns, g.bee, y)}
      /\ g.reply = hierarchyFile(g.conns, g.bees, g.bee)

\* A reply for a bee with a connection to it and none from it.
C25_Witness ==
  \E g \in gets :
    /\ g.op = "hierarchy"
    /\ g.reply.receivesTasksFrom # <<>>
    /\ g.reply.canDelegateTo = <<>>

\* C26: a stop request leaves the container in place, stopped, and changes no
\* file of any directory and no hierarchy.json; a start of a bee for which a
\* container was created before creates no other.
C26_StopKeepsEverything ==
  [][/\ \A b \in Bees :
          StopBee(b) => /\ container'[b] = "exited"
                        /\ fs' = fs
                        /\ beeDirs' = beeDirs
                        /\ hierarchy' = hierarchy
                        /\ created' = created
     /\ \A s \in starts :
          (StartBeeDone(s) /\ created[s.bee] > 0) =>
             (created' = created /\ container'[s.bee] = "running")]_vars

\* A stopped bee with mail in its inbox and a file in its workspace, and the
\* next start of it under way.
C26_Witness ==
  /\ container["b1"] = "exited"
  /\ beeStates["b1"] = "stopped"
  /\ fs[BeeDir("inbox", "b1")] # {}
  /\ fs[BeeDir("workspace", "b1")] # {}
  /\ \E s \in starts : s.bee = "b1" /\ s.pc = "startBee"

\* The entries for bees of an answered counts request.
BeeCounts(g) == {c \in g.counts : c.id \in Bees}
Answered == {g \in gets : g.op = "counts" /\ g.pc = "done"}

\* C27: in an answer of GET /api/mail/counts a bee is processing exactly when
\* its container ran while the request was served and its inbox count is
\* positive, and the human never is.
C27_ProcessingMeansRunning ==
  \A g \in Answered :
    \A c \in g.counts :
      IF c.id \in Bees
      THEN c.processing = (<<c.id, TRUE>> \in g.ran /\ c.inbox > 0)
      ELSE c.id = "human" => ~c.processing

\* What readdir returned for the directory is what the directory holds when
\* the answer is sent.
ReadCurrent(g, kind, b) ==
  <<kind, b, {f.name : f \in g.at.fs[BeeDir(kind, b)]}>> \in g.files

\* C28: in an answer of GET /api/mail/counts, the inbox and outbox numbers of
\* a bee whose directories hold what was read from them are the numbers of
\* .json files in the directories, and the human numbers are the lengths of
\* the human inbox and outbox when these are the arrays that were read.
C28_CountsAreFileCounts ==
  \A g \in Answered :
    /\ \A c \in BeeCounts(g) :
         /\ ReadCurrent(g, "inbox", c.id) =>
              c.inbox = Cardinality({f \in g.at.fs[BeeDir("inbox", c.id)] :
                                       f.name.ext = "json"})
         /\ ReadCurrent(g, "outbox", c.id) =>
              c.outbox = Cardinality({f \in g.at.fs[BeeDir("outbox", c.id)] :
                                        f.name.ext = "json"})
    /\ (g.human.inbox = g.at.inbox /\ g.human.outbox = g.at.outbox) =>
         \E c \in g.counts : /\ c.id = "human"
                              /\ c.inbox = Len(g.at.inbox)
                              /\ c.outbox = Len(g.at.outbox)
    /\ {c.id : c \in g.counts} = {"human"} \cup Range(g.bees)

\* An answer for a bee with a mail in its inbox and a file that is no .json
\* file in its outbox, both as they were read, after the human has sent mail.
C28_Witness ==
  \E g \in Answered :
    /\ ReadCurrent(g, "inbox", "b1")
    /\ ReadCurrent(g, "outbox", "b1")
    /\ g.at.fs[BeeDir("inbox", "b1")] # {}
    /\ \E f \in g.at.fs[BeeDir("outbox", "b1")] : f.name.ext # "json"
    /\ g.at.outbox # <<>>

\* C29: a mail file in the inbox of a registered bee leads to a mail:counts
\* event being broadcast.
C29_InboxChangeBroadcast ==
  \A b \in Bees :
    (up /\ b \in Range(bees) /\ fs[BeeDir("inbox", b)] # {})
      ~> (\E e \in events : e[1] = "mail:counts")

\* The two objects have the same fields with the same values, status aside.
SameButStatus(a, b) == [a EXCEPT !.status = ""] = [b EXCEPT !.status = ""]

\* C30: the object in a file of a bee's inbox that came from an outbox is the
\* object the agent wrote into the outbox, in every field but status, fields
\* the router does not know included.
C30_RoundTripPreservesFields ==
  \A b \in Bees :
    \A f \in fs[BeeDir("inbox", b)] :
      \E w \in written :
        /\ w.mail.id = Parse(f.raw).id
        /\ SameButStatus(Parse(f.raw), w.mail)

\* A mail with a field the router does not know has reached the inbox of b2.
C30_Witness ==
  \E f \in fs[BeeDir("inbox", "b2")] :
    /\ "extra" \in DOMAIN Parse(f.raw)
    /\ Parse(f.raw).from = "b1"

\* C31: when the process runs, no write of human-mailbox.json is in flight
\* and none has failed, the file holds the human inbox and outbox of memory.
C31_MailboxDiskEqualsMemory ==
  (/\ up
   /\ used.io = 0
   /\ ~(\E h \in handlers : h.pc = "save")
   /\ ~(\E r \in requests : r.pc = "save")) =>
    humanDisk = [inbox |-> humanInbox, outbox |-> humanOutbox]

\* C32: no reader gets the content of a half-written mail file: the runner
\* never fails on a file of its inbox that is listed and not yet complete.
C32_NoPartialRead ==
  \A b \in Bees : \A e \in runner[b].errors : e[2] # "partial"

\* C34: the runner has at most one mail in processing, every mail taken
\* before it is processed, and of two files taken one after the other in the
\* same scan the earlier has the smaller name.
C34_SequentialAscending ==
  \A b \in Bees :
    LET rn == runner[b]
    IN /\ Len(rn.taken) = Len(rn.done) + (IF rn.pc = "process" THEN 1 ELSE 0)
       /\ (rn.pc = "process") = (rn.mail # NoMail)
       /\ \A i \in 2..Len(rn.taken) :
            ~rn.taken[i].first => NameLess(rn.taken[i - 1].name, rn.taken[i].name)

\* Two files taken in one scan, the second while none is in processing.
C34_Witness ==
  /\ Len(runner["b1"].taken) = 2
  /\ ~runner["b1"].taken[2].first
  /\ Len(runner["b1"].done) = 1

\* The mail ids of the well-formed .json files in the inbox of b.
Waiting(b) ==
  {Parse(f.raw).id : f \in {x \in fs[BeeDir("inbox", b)] :
                              x.name.ext = "json" /\ ~ParseThrows(x.raw)}}

\* C35: a well-formed mail file in the inbox of a running bee leads to the
\* runner having processed that mail.
C35_EventuallyProcessed ==
  \A id \in Ids \cup {OldMail.id} :
    (container["b1"] = "running" /\ id \in Waiting("b1"))
      ~> (id \in Range(runner["b1"].done))

\* A request whose route has passed the topology check and not ended.
RoutePending(r) == r.pc \in {"mkdir", "write", "writing"}

C36_SendAllOrNothing ==
  up =>
    \A r \in requests :
      r.pc = "done" =>
        IF r.status = 200
        THEN /\ r.mail \in Range(humanOutbox)
             /\ Cardinality({f \in fs[BeeDir("inbox", r.mail.to)] :
                               ~ParseThrows(f.raw) /\ Parse(f.raw).id = r.mail.id}) = 1
        ELSE /\ r.mail = NoMail \/ r.mail \notin Range(humanOutbox)
             /\ r.mail = NoMail \/
                  \A b \in Bees : \A f \in fs[BeeDir("inbox", b)] :
                    ParseThrows(f.raw) \/ Parse(f.raw).id # r.mail.id

\* C37: when no start request is in flight, a bee that is not in the registry
\* has no running container and no data directory.
C37_NoLeftoversOfRemovedBee ==
  \A b \in Bees :
    (up /\ starts = {} /\ b \notin Range(bees)) =>
      (container[b] # "running" /\ b \notin beeDirs)

\* C38: the answer of GET /api/bees holds an entry for every registered bee
\* and for no other id.
C38_ListIsRegistry ==
  \A g \in gets :
    (g.op = "bees" /\ g.pc = "done") =>
      {e[1] : e \in g.list} = Range(g.bees) \cap Bees

\* The entries of the lines appended after startWatching loaded the transcript.
AppendedEntries == ParseLines(SliceFrom(transcript.file, transcript.base))

\* C39: when no line was appended while startWatching itself ran, the 'entry'
\* events emitted are, in order and each once, the entries of the lines
\* appended after startWatching: always a prefix of them, and all of them once
\* no event is pending and no read is in flight.
C39_EntriesEmittedOnceInOrder ==
  (transcript.watching /\ ~transcript.early) =>
    /\ Len(transcript.emitted) <= Len(AppendedEntries)
    /\ transcript.emitted = SubSeq(AppendedEntries, 1, Len(transcript.emitted))
    /\ (transcript.reads = {} /\ ~transcript.event) =>
          transcript.emitted = AppendedEntries

\* C40: every call of resolveDependencies returns or throws.
C40_ResolveTerminates ==
  (resolve.pc = "loop") ~> (resolve.pc \in {"returned", "thrown"})

====
